---------------------------- MODULE Spec2Model ----------------------------
(***************************************************************************)
(* BridgeSpace: network / private-space scoped sharing of files and text.  *)
(*                                                                         *)
(* The model covers the storage gateway (networkUtils: fetchSharedFiles,   *)
(* fetchSharedTexts, uploadFile, saveSharedText), the upload coordinator   *)
(* (FileUpload.handleUpload, handleCancelUpload) and the delete handlers   *)
(* of the Index page (getStoragePathFromUrl, handleDeleteFile).            *)
(*                                                                         *)
(* Every asynchronous handler is cut at its awaits: one action runs the    *)
(* code from the return of one awaited store call to the next await.  A    *)
(* store call takes effect (or fails) at the step in which it returns.     *)
(***************************************************************************)
EXTENDS Integers, Sequences, FiniteSets, TLC

(***************************************************************************)
(* Bounds of the model.                                                    *)
(***************************************************************************)
\* longest file selection handed to one handleUpload call
MaxBatch == 3
\* last value of the millisecond clock read by Date.now()
MaxTime == 2
\* number of saveSharedText calls made, all clients together
MaxSaves == 3
\* number of gateway calls (handleUpload, saveSharedText) made under Spec
MaxCalls == 3
\* number of saves the edits of the convergence specification lead to
MaxConvergeSaves == 2
\* number of runs of the sweeper
MaxSweeps == 2
\* number of days that pass while the sweeper is observed
MaxSweepDays == 1

(***************************************************************************)
(* Program constants.                                                      *)
(***************************************************************************)
MAX_FILE_SIZE == 50 * 1024 * 1024
MAX_FILES == 20
MAX_BATCH_FILES == 50
FETCH_FILES_LIMIT == 50
FETCH_TEXTS_LIMIT == 10

(***************************************************************************)
(* Universe: the clients (browser sessions), the handleUpload calls, the   *)
(* files a user can select, the texts a user can type.                     *)
(***************************************************************************)
Clients == {"c1", "c2", "c3"}
\* the handleUpload calls: u1 is the call the upload specification follows
Procs == {"u1", "u2"}
UploadCalls == {"u1"}

\* a file name is a sequence of characters; "é" stands for a non-ASCII one
Chars == {"a", "1", "-", "é"}
IsAscii(ch) == ch # "é"

Files ==
  { [name |-> <<"a">>, size |-> 12],
    [name |-> <<"a", "1">>, size |-> 2],
    [name |-> <<"é", "a">>, size |-> 12],
    [name |-> <<"a">>, size |-> MAX_FILE_SIZE + 1] }

Contents == {"hello", "hello world"}

\* the network prefixes and private-space keys in use; "10.0.0" is also a key
Prefixes == {"10.0.0", "10.0.1"}
Keys == {"K", "10.0.0"}

\* JavaScript's undefined / SQL NULL for a string-valued field: no key and no
\* prefix is ever the empty string where the code uses it (both are tested
\* for truthiness first)
Undefined == ""

RECURSIVE SeqsUpTo(_, _)
SeqsUpTo(S, n) ==
  IF n = 0 THEN {<<>>}
  ELSE LET shorter == SeqsUpTo(S, n - 1)
       IN shorter \cup {Append(s, x) : s \in {q \in shorter : Len(q) = n - 1}, x \in S}

Batches == SeqsUpTo(Files, MaxBatch) \ {<<>>}

VARIABLES
  shared_files,        \* rows of table shared_files
  shared_texts,        \* rows of table shared_texts
  storage_objects,     \* paths of the objects of bucket shared_files
  nextId,              \* next generated row id
  now,                 \* the clock, in milliseconds
  cachedNetworkPrefix, \* per client: module variable cachedNetworkPrefix
  privateSpaceKey,     \* per client: prop privateSpaceKey ("" when undefined)
  upload,              \* per handleUpload call: its position and locals
  uploadRef,           \* per client: FileUpload's uploadRef.current
  isUploading,         \* per client: FileUpload's isUploading
  cancelUpload,        \* per client: FileUpload's cancelUpload
  uploadProgress,      \* per client: FileUpload's uploadProgress, in whole percent
  save,                \* per client: position and locals of saveSharedText
  del,                 \* per client: position and locals of handleDeleteFile
  listed,              \* per client: last results of the fetch calls
  saved,               \* per scope: content of the last saveSharedText call
                       \* that returned a row ("" when none has)
  cachedClientIP,      \* per client: module variable cachedClientIP (<<>>: null)
  ipCall,              \* per client and NetworkStatus instance: position of
                       \* its checkNetwork call
  index,               \* per client: state of the Index page (networkConnected,
                       \* networkPrefix, clientIP, inputKey)
  fetches,             \* per client: the fetchSharedItems calls in flight
  editor,              \* per client: state of the TextShare component
  sweep                \* the runs of cleanup_old_files made so far

storeVars == <<shared_files, shared_texts, storage_objects, nextId, now>>
scopeVars == <<cachedNetworkPrefix, privateSpaceKey>>
uploadVars == <<upload, uploadRef, isUploading, cancelUpload, uploadProgress>>
sessionVars == <<cachedClientIP, ipCall, index, fetches, editor>>
vars == <<storeVars, scopeVars, uploadVars, save, del, listed, saved, sessionVars, sweep>>

(***************************************************************************)
(* Strings.                                                                *)
(***************************************************************************)
RECURSIVE Concat(_)
Concat(chars) == IF chars = <<>> THEN "" ELSE Head(chars) \o Concat(Tail(chars))

\* fileName.replace(/[^\x00-\x7F]/g, "")
sanitizeFileName(name) == SelectSeq(name, IsAscii)

\* `${Date.now()}_${sanitizedFileName}` under the folder public/
UniqueFilePath(t, name) ==
  << <<"public">>, <<ToString(t), "_">> \o sanitizeFileName(name) >>

\* A URL is [abs, segs]: abs says that `new URL(url)` accepts it (it is an
\* absolute URL), segs are the segments of its path, each a sequence of
\* characters or of whole words.  A storage path is a sequence of segments.
PublicUrlPrefix == << <<"storage">>, <<"v1">>, <<"object">>, <<"public">>, <<"shared_files">> >>
ObjectUrlPrefix == << <<"storage">>, <<"v1">>, <<"object">>, <<"shared_files">> >>
getPublicUrl(path) == [abs |-> TRUE, segs |-> PublicUrlPrefix \o path]

(***************************************************************************)
(* Scopes.  A row belongs to the private space named by private_space_key, *)
(* or, when that is NULL, to the network named by network_prefix.          *)
(***************************************************************************)
NetScope(prefix) == <<"network", prefix>>
KeyScope(key) == <<"private", key>>
CallScope(key, prefix) == IF key # Undefined THEN KeyScope(key) ELSE NetScope(prefix)
Scopes == {NetScope(prefix) : prefix \in Prefixes} \cup {KeyScope(key) : key \in Keys}

\* getCachedNetworkPrefix(): cachedNetworkPrefix || ''
getCachedNetworkPrefix(c) == cachedNetworkPrefix[c]

\* prop networkConnected of FileUpload: networkConnected || isPrivateSpace
networkConnected(c) == cachedNetworkPrefix[c] # "" \/ privateSpaceKey[c] # Undefined

\* .order('shared_at', {ascending: false}).limit(n); ids grow with insertion
NewestFirstLimit(rows, n) ==
  {r \in rows : Cardinality({q \in rows : q.id > r.id}) < n}

\* fetchSharedFiles(privateSpaceKey) of a client whose cached prefix is prefix;
\* ok says whether the query succeeds (an error is caught and [] returned)
fetchSharedFiles(key, prefix, ok) ==
  IF key # Undefined
    THEN IF ok
           THEN NewestFirstLimit({r \in shared_files : r.private_space_key = key},
                                 FETCH_FILES_LIMIT)
           ELSE {}
    ELSE IF prefix = "" THEN {}
    ELSE IF ok
           THEN NewestFirstLimit({r \in shared_files : r.network_prefix = prefix},
                                 FETCH_FILES_LIMIT)
           ELSE {}

fetchSharedTexts(key, prefix, ok) ==
  IF key # Undefined
    THEN IF ok
           THEN NewestFirstLimit({r \in shared_texts : r.private_space_key = key},
                                 FETCH_TEXTS_LIMIT)
           ELSE {}
    ELSE IF prefix = "" THEN {}
    ELSE IF ok
           THEN NewestFirstLimit({r \in shared_texts : r.network_prefix = prefix},
                                 FETCH_TEXTS_LIMIT)
           ELSE {}


(***************************************************************************)
(* Upload coordinator: FileUpload.handleUpload and networkUtils.uploadFile. *)
(***************************************************************************)
\* the key without its separator: `${file.name}${file.size}`
FileKeyNoSeparator(file) == Concat(file.name) \o ToString(file.size)

\* `${file.name}-${file.size}`
FileKey(file) == Concat(file.name) \o "-" \o ToString(file.size)

\* originalOrderFiles.filter(...) with the Set `seen`
RECURSIVE uniqueFilesFrom(_, _)
uniqueFilesFrom(list, seen) ==
  IF list = <<>> THEN <<>>
  ELSE LET key == FileKey(Head(list))
       IN IF key \in seen
            THEN uniqueFilesFrom(Tail(list), seen)
            ELSE <<Head(list)>> \o uniqueFilesFrom(Tail(list), seen \cup {key})

uniqueFiles(fileList) == uniqueFilesFrom(fileList, {})

\* the size check applied to the first file only
oversizedFirstOnly(fileList) ==
  SelectSeq(SubSeq(fileList, 1, 1), LAMBDA file : file.size > MAX_FILE_SIZE)

\* fileList.filter((file) => file.size > MAX_FILE_SIZE)
oversizedFiles(fileList) == SelectSeq(fileList, LAMBDA file : file.size > MAX_FILE_SIZE)

\* existingFiles.length >= 20
FileLimitReached(existingFiles) == Cardinality(existingFiles) >= MAX_FILES

IdleUpload ==
  [pc |-> "idle", client |-> "", key |-> Undefined, fileList |-> <<>>,
   uniqueFiles |-> <<>>, i |-> 0, uploadedFiles |-> <<>>, path |-> <<>>,
   result |-> "", blobsPut |-> {}, countAtCheck |-> -1, countSeen |-> -1,
   failedAt |-> "", refreshes |-> 0, cancelRequested |-> FALSE,
   countFailed |-> FALSE]

\* the rows of the scope a call with (key, prefix) writes into
RowsOfScope(key, prefix) ==
  IF key # Undefined
    THEN {r \in shared_files : r.private_space_key = key}
    ELSE {r \in shared_files : r.private_space_key = Undefined /\ r.network_prefix = prefix}

\* lines 601-619: what follows the loop
AfterLoop(r) ==
  IF Len(r.uploadedFiles) > 0
    THEN [r EXCEPT !.pc = "refresh",
                   !.result = IF uploadRef[r.client] THEN "cancelled" ELSE "complete"]
    ELSE [r EXCEPT !.pc = "finally", !.result = "nothing"]

\* the loop going on with the next file after uploadFile threw
UploadFileThrewContinues(r, where) ==
  IF uploadRef[r.client] \/ r.i + 1 > Len(r.uniqueFiles)
    THEN AfterLoop(r)
    ELSE [r EXCEPT !.pc = "upload", !.i = r.i + 1,
                   !.path = UniqueFilePath(now, r.uniqueFiles[r.i + 1].name)]

\* the loop trying the same file again after uploadFile threw
UploadFileThrewRetries(r, where) ==
  IF uploadRef[r.client]
    THEN AfterLoop(r)
    ELSE [r EXCEPT !.pc = "upload"]

\* lines 593-598 and 620-627: uploadFile threw
UploadFileThrew(r, where) ==
  IF uploadRef[r.client]
    THEN AfterLoop(r)
    ELSE [r EXCEPT !.pc = "finally", !.result = "failed", !.failedAt = where]

\* the iteration without the check of uploadRef.current
StartFileIgnoresCancel(r, i, t) ==
  IF i > Len(r.uniqueFiles) THEN AfterLoop(r)
  ELSE IF r.key = Undefined /\ getCachedNetworkPrefix(r.client) = ""
    THEN UploadFileThrew([r EXCEPT !.i = i], "scope")
  ELSE [r EXCEPT !.pc = "upload", !.i = i,
                 !.path = UniqueFilePath(t, r.uniqueFiles[i].name)]

\* lines 577-589 and uploadFile lines 146-164: iteration i of the loop, up to
\* the await of the storage upload; t is Date.now()
StartFile(r, i, t) ==
  IF i > Len(r.uniqueFiles) THEN AfterLoop(r)
  ELSE IF uploadRef[r.client] THEN AfterLoop(r)
  ELSE IF r.key = Undefined /\ getCachedNetworkPrefix(r.client) = ""
    THEN UploadFileThrew([r EXCEPT !.i = i], "scope")
  ELSE [r EXCEPT !.pc = "upload", !.i = i,
                 !.path = UniqueFilePath(t, r.uniqueFiles[i].name)]

\* ((i + 1) / uniqueFiles.length) * 100, line 592, after the file of
\* iteration i was uploaded; the value the state holds when call p goes on
\* with the locals r
Progress(p, r, starting) ==
  IF starting THEN 0
  ELSE IF Len(r.uploadedFiles) > Len(upload[p].uploadedFiles)
    THEN (Len(r.uploadedFiles) * 100) \div Len(r.uniqueFiles)
    ELSE uploadProgress[r.client]

\* the finally block without the reset of the cancel flag
LeaveUploadKeepsFlag(p, r, starting) ==
  /\ upload' = [upload EXCEPT ![p] = IF r.pc = "finally" THEN [r EXCEPT !.pc = "done"] ELSE r]
  /\ IF r.pc = "finally"
       THEN /\ isUploading' = [isUploading EXCEPT ![r.client] = FALSE]
            /\ uploadProgress' = [uploadProgress EXCEPT ![r.client] = 0]
            /\ UNCHANGED <<uploadRef, cancelUpload>>
       ELSE /\ isUploading' = IF starting THEN [isUploading EXCEPT ![r.client] = TRUE]
                                          ELSE isUploading
            /\ uploadProgress' = [uploadProgress EXCEPT ![r.client] = Progress(p, r, starting)]
            /\ UNCHANGED <<uploadRef, cancelUpload>>

\* lines 628-634: the finally block; otherwise the component state is kept,
\* but for setIsUploading(true) and setUploadProgress(0) of lines 518-519
\* when the call starts and setUploadProgress of line 592 after a file
LeaveUpload(p, r, starting) ==
  /\ upload' = [upload EXCEPT ![p] = IF r.pc = "finally" THEN [r EXCEPT !.pc = "done"] ELSE r]
  /\ IF r.pc = "finally"
       THEN /\ uploadRef' = [uploadRef EXCEPT ![r.client] = FALSE]
            /\ isUploading' = [isUploading EXCEPT ![r.client] = FALSE]
            /\ cancelUpload' = [cancelUpload EXCEPT ![r.client] = FALSE]
            /\ uploadProgress' = [uploadProgress EXCEPT ![r.client] = 0]
       ELSE /\ isUploading' = IF starting THEN [isUploading EXCEPT ![r.client] = TRUE]
                                          ELSE isUploading
            /\ uploadProgress' = [uploadProgress EXCEPT ![r.client] = Progress(p, r, starting)]
            /\ UNCHANGED <<uploadRef, cancelUpload>>

\* the values Date.now() can return at the next call of uploadFile
Times == {t \in now .. now + 1 : t <= MaxTime}

\* handleUpload, lines 506-536: up to the await of fetchSharedFiles
handleUpload(p, c, fileList) ==
  /\ upload[p].pc = "idle"
  /\ LET r == [IdleUpload EXCEPT !.client = c, !.key = privateSpaceKey[c],
                                 !.fileList = fileList]
     IN IF ~networkConnected(c)
          THEN /\ upload' = [upload EXCEPT ![p] = [r EXCEPT !.pc = "done",
                                                           !.result = "not_connected"]]
               /\ UNCHANGED <<uploadRef, isUploading, cancelUpload, uploadProgress>>
          ELSE IF Len(oversizedFiles(fileList)) > 0
            THEN LeaveUpload(p, [r EXCEPT !.pc = "finally", !.result = "too_large"], TRUE)
            ELSE LeaveUpload(p, [r EXCEPT !.pc = "count"], TRUE)
  /\ UNCHANGED <<storeVars, scopeVars, sessionVars, save, del, listed, saved>>
  /\ UNCHANGED sweep

\* lines 536-589: fetchSharedFiles returns; the checks, the dedup, file 1.
\* countFailed records that the query was made and failed.
FetchExistingReturn(p) ==
  /\ upload[p].pc = "count"
  /\ \E ok \in BOOLEAN, t \in Times :
       LET r0 == upload[p]
           prefix == getCachedNetworkPrefix(r0.client)
           existingFiles == fetchSharedFiles(r0.key, prefix, ok)
           r == [r0 EXCEPT !.countAtCheck = Cardinality(RowsOfScope(r0.key, prefix)),
                           !.countSeen = Cardinality(existingFiles),
                           !.countFailed = ~ok /\ (r0.key # Undefined \/ prefix # "")]
       IN /\ now' = t
          /\ IF FileLimitReached(existingFiles)
               THEN LeaveUpload(p, [r EXCEPT !.pc = "finally", !.result = "limit_reached"], FALSE)
             ELSE IF Len(r.fileList) > MAX_BATCH_FILES
               THEN LeaveUpload(p, [r EXCEPT !.pc = "finally", !.result = "too_many"], FALSE)
             ELSE IF Len(uniqueFiles(r.fileList)) > MAX_BATCH_FILES
               THEN LeaveUpload(p, [r EXCEPT !.pc = "finally", !.result = "too_many"], FALSE)
             ELSE LeaveUpload(p, StartFile([r EXCEPT !.uniqueFiles = uniqueFiles(r.fileList)],
                                           1, t), FALSE)
  /\ UNCHANGED <<shared_files, shared_texts, storage_objects, nextId>>
  /\ UNCHANGED <<scopeVars, sessionVars, save, del, listed, saved>>
  /\ UNCHANGED sweep

\* uploadFile lines 159-176: the storage upload returns (upsert: false, so an
\* existing object is an error); on success the row insert is awaited
StorageUploadReturn(p) ==
  /\ upload[p].pc = "upload"
  /\ \E ok \in BOOLEAN :
       LET r == upload[p]
       IN /\ UNCHANGED now
          /\ IF ok /\ r.path \notin storage_objects
               THEN /\ storage_objects' = storage_objects \cup {r.path}
                    /\ LeaveUpload(p, [r EXCEPT !.pc = "insert",
                                                !.blobsPut = @ \cup {r.path}], FALSE)
               ELSE /\ UNCHANGED storage_objects
                    /\ LeaveUpload(p, UploadFileThrew(r, "upload"), FALSE)
  /\ UNCHANGED <<shared_files, shared_texts, nextId>>
  /\ UNCHANGED <<scopeVars, sessionVars, save, del, listed, saved>>
  /\ UNCHANGED sweep

\* the row with the cached network prefix written in private-space mode too
NewFileRowKeepsPrefix(id, file, path, key, prefix) ==
  [id |-> id, name |-> Concat(sanitizeFileName(file.name)), size |-> file.size,
   url |-> getPublicUrl(path),
   network_prefix |-> prefix,
   private_space_key |-> key,
   scope |-> CallScope(key, prefix)]

\* the row uploadFile inserts, lines 178-186
NewFileRow(id, file, path, key, prefix) ==
  [id |-> id, name |-> Concat(sanitizeFileName(file.name)), size |-> file.size,
   url |-> getPublicUrl(path),
   network_prefix |-> IF key # Undefined THEN "" ELSE prefix,
   private_space_key |-> key,
   scope |-> CallScope(key, prefix)]

\* the filter of the subscription of the Index page to shared_files made by
\* a render with (key, prefix), Index.tsx lines 205-207
FileFilter(key, prefix) == [key |-> key, prefix |-> prefix]

\* private_space_key=eq.<key> or network_prefix=eq.<prefix>
Matches(f, row) ==
  IF f.key # Undefined THEN row.private_space_key = f.key
                       ELSE row.network_prefix = f.prefix

\* the change feed of shared_files: a change event for an inserted row is
\* sent to every subscription whose filter the row matches.  events: the
\* events sent and not yet handled; burst: how many events have been sent
\* since the channel last held none; burstRefreshes: the calls of
\* fetchSharedItems the handler has made for them.
PublishFile(row) ==
  [d \in Clients |->
     IF index[d].subscription # <<>> /\ Matches(index[d].subscription[1], row)
       THEN [index[d] EXCEPT !.events = @ + 1,
                             !.burst = IF index[d].events = 0 THEN 1 ELSE @ + 1,
                             !.burstRefreshes = IF index[d].events = 0 THEN 0 ELSE @]
       ELSE index[d]]

\* uploadFile lines 176-198 and handleUpload lines 589-599: the insert returns;
\* on success the next iteration starts
InsertReturn(p) ==
  /\ upload[p].pc = "insert"
  /\ \E ok \in BOOLEAN, t \in Times :
       LET r == upload[p]
           file == r.uniqueFiles[r.i]
           row == NewFileRow(nextId, file, r.path, r.key, getCachedNetworkPrefix(r.client))
       IN /\ now' = t
          /\ IF ok
               THEN /\ shared_files' = shared_files \cup {row}
                    /\ nextId' = nextId + 1
                    /\ index' = PublishFile(row)
                    /\ LeaveUpload(p, StartFile([r EXCEPT !.uploadedFiles = Append(@, file)],
                                                r.i + 1, t), FALSE)
               ELSE /\ UNCHANGED <<shared_files, nextId, index>>
                    /\ LeaveUpload(p, UploadFileThrew(r, "insert"), FALSE)
  /\ UNCHANGED <<shared_texts, storage_objects>>
  /\ UNCHANGED <<scopeVars, save, del, listed, saved>>
  /\ UNCHANGED <<cachedClientIP, ipCall, fetches, editor>>
  /\ UNCHANGED sweep

\* lines 607-608 and 615-616: the refresh query returns, onFilesUploaded runs
RefreshReturn(p) ==
  /\ upload[p].pc = "refresh"
  /\ LeaveUpload(p, [upload[p] EXCEPT !.pc = "finally", !.refreshes = @ + 1], FALSE)
  /\ UNCHANGED storeVars
  /\ UNCHANGED <<scopeVars, sessionVars, save, del, listed, saved>>
  /\ UNCHANGED sweep

\* lines 637-640; the button is rendered while isUploading and disabled once
\* cancelUpload is set (lines 653-658).  cancelRequested records, for each
\* batch of the component in progress, that cancel was requested.
handleCancelUpload(c) ==
  /\ isUploading[c]
  /\ ~cancelUpload[c]
  /\ uploadRef' = [uploadRef EXCEPT ![c] = TRUE]
  /\ cancelUpload' = [cancelUpload EXCEPT ![c] = TRUE]
  /\ upload' = [p \in Procs |->
                  IF upload[p].client = c /\ upload[p].pc \notin {"idle", "done"}
                    THEN [upload[p] EXCEPT !.cancelRequested = TRUE]
                    ELSE upload[p]]
  /\ UNCHANGED <<isUploading, uploadProgress>>
  /\ UNCHANGED <<storeVars, scopeVars, sessionVars, save, del, listed, saved>>
  /\ UNCHANGED sweep


(***************************************************************************)
(* Shared text: networkUtils.saveSharedText.                               *)
(***************************************************************************)
IdleSave == [pc |-> "idle", key |-> Undefined, content |-> "", existingId |-> 0,
             seen |-> 0, calls |-> 0, result |-> ""]

\* the select filtered by network_prefix whatever the mode
ExistingTextsByPrefix(key, prefix) ==
  {r \in shared_texts : r.network_prefix = prefix}

\* the rows the select of lines 215-227 returns for (key, prefix)
ExistingTexts(key, prefix) ==
  IF key # Undefined
    THEN {r \in shared_texts : r.private_space_key = key}
    ELSE {r \in shared_texts : r.network_prefix = prefix}

\* the row saveSharedText inserts, lines 254-259
NewTextRow(id, content, key, prefix) ==
  [id |-> id, content |-> content,
   network_prefix |-> IF key # Undefined THEN "" ELSE prefix,
   private_space_key |-> key,
   scope |-> CallScope(key, prefix)]

\* the filter of a text subscription made for (key, prefix), lines 102-104
TextFilter(key, prefix) == [key |-> key, prefix |-> prefix]

\* the change feed of shared_texts: an inserted or updated row is sent, as
\* payload.new, to every subscription whose filter it matches
Publish(row) ==
  [d \in Clients |->
     IF editor[d].filter # <<>> /\ Matches(editor[d].filter[1], row)
       THEN [editor[d] EXCEPT !.events = Append(@, row.content)]
       ELSE editor[d]]

\* The error codes the select can come back with.  Line 230 lets the code
\* 'PGNF' pass; the store has no such code, so an error is always thrown.
SelectErrorCodes == {"none", "other"}

RECURSIVE SavesMade(_)
SavesMade(cs) ==
  IF cs = {} THEN 0
  ELSE LET c == CHOOSE d \in cs : TRUE IN save[c].calls + SavesMade(cs \ {c})

\* the locals of a call that has returned are dropped
Returned(r, result) == [IdleSave EXCEPT !.calls = r.calls, !.result = result]

\* saveSharedText lines 207-227: up to the await of the select
saveSharedTextCall(c, content) ==
  /\ save[c].pc = "idle"
  /\ SavesMade(Clients) < MaxSaves
  /\ LET r == [save[c] EXCEPT !.key = privateSpaceKey[c], !.content = content,
                              !.calls = @ + 1, !.existingId = 0]
     IN save' = [save EXCEPT ![c] =
                   IF r.key = Undefined /\ getCachedNetworkPrefix(c) = ""
                     THEN Returned(r, "failed")
                     ELSE [r EXCEPT !.pc = "select", !.result = ""]]

\* a call made by a client directly
saveSharedText(c, content) ==
  /\ saveSharedTextCall(c, content)
  /\ UNCHANGED <<storeVars, scopeVars, sessionVars, uploadVars, del, listed, saved>>
  /\ UNCHANGED sweep

\* lines 227-261: the select returns; an update of the first row found or an
\* insert is issued.  The select has no ORDER BY: any row can come first.
SelectReturn(c) ==
  /\ save[c].pc = "select"
  /\ \E code \in SelectErrorCodes :
       LET r == save[c]
           existingData == IF code = "none"
                             THEN ExistingTexts(r.key, getCachedNetworkPrefix(c))
                             ELSE {}
       IN IF code # "none" /\ code # "PGNF"
            THEN save' = [save EXCEPT ![c] = Returned(r, "failed")]
            ELSE IF existingData # {}
              THEN \E first \in existingData :
                     save' = [save EXCEPT ![c] = [r EXCEPT !.pc = "update",
                                                           !.existingId = first.id,
                                                           !.seen = Cardinality(existingData)]]
              ELSE save' = [save EXCEPT ![c] = [r EXCEPT !.pc = "insert"]]
  /\ UNCHANGED <<storeVars, scopeVars, sessionVars, uploadVars, del, listed, saved>>
  /\ UNCHANGED sweep

\* lines 238-249: the update returns; .single() fails when the row is gone
UpdateReturn(c) ==
  /\ save[c].pc = "update"
  /\ \E ok \in BOOLEAN :
       LET r == save[c]
           hit == {row \in shared_texts : row.id = r.existingId}
       IN IF ok /\ hit # {}
            THEN /\ shared_texts' = (shared_texts \ hit)
                                      \cup {[row EXCEPT !.content = r.content] : row \in hit}
                 /\ save' = [save EXCEPT ![c] = Returned(r, "saved")]
                 /\ saved' = [saved EXCEPT ![CallScope(r.key, getCachedNetworkPrefix(c))] =
                                r.content]
                 /\ editor' = Publish([(CHOOSE row \in hit : TRUE) EXCEPT
                                         !.content = r.content])
            ELSE /\ save' = [save EXCEPT ![c] = Returned(r, "failed")]
                 /\ UNCHANGED <<shared_texts, saved, editor>>
  /\ UNCHANGED <<shared_files, storage_objects, nextId, now>>
  /\ UNCHANGED <<scopeVars, uploadVars, del, listed>>
  /\ UNCHANGED <<cachedClientIP, ipCall, index, fetches>>
  /\ UNCHANGED sweep

\* lines 252-264: the insert returns
TextInsertReturn(c) ==
  /\ save[c].pc = "insert"
  /\ \E ok \in BOOLEAN :
       LET r == save[c]
           prefix == getCachedNetworkPrefix(c)
       IN IF ok
            THEN /\ shared_texts' = shared_texts
                                      \cup {NewTextRow(nextId, r.content, r.key, prefix)}
                 /\ nextId' = nextId + 1
                 /\ save' = [save EXCEPT ![c] = Returned(r, "saved")]
                 /\ saved' = [saved EXCEPT ![CallScope(r.key, prefix)] = r.content]
                 /\ editor' = Publish(NewTextRow(nextId, r.content, r.key, prefix))
            ELSE /\ save' = [save EXCEPT ![c] = Returned(r, "failed")]
                 /\ UNCHANGED <<shared_texts, nextId, saved, editor>>
  /\ UNCHANGED <<shared_files, storage_objects, now>>
  /\ UNCHANGED <<scopeVars, uploadVars, del, listed>>
  /\ UNCHANGED <<cachedClientIP, ipCall, index, fetches>>
  /\ UNCHANGED sweep

\* a call made while no other saveSharedText call is in flight
saveSharedTextAlone(c, content) ==
  /\ \A d \in Clients : save[d].pc = "idle"
  /\ saveSharedText(c, content)

(***************************************************************************)
(* Index page: fetchSharedItems, getStoragePathFromUrl, handleDeleteFile.  *)
(***************************************************************************)
NothingListed == [files |-> {}, texts |-> {}]

\* fetchSharedItems, lines 57-84: both queries and the two setState calls
fetchSharedItems(c) ==
  /\ \E okFiles \in BOOLEAN, okTexts \in BOOLEAN :
       listed' = [listed EXCEPT ![c] =
         IF ~networkConnected(c)
           THEN NothingListed
           ELSE [files |-> fetchSharedFiles(privateSpaceKey[c], getCachedNetworkPrefix(c),
                                            okFiles),
                 texts |-> fetchSharedTexts(privateSpaceKey[c], getCachedNetworkPrefix(c),
                                            okTexts)]]
  /\ UNCHANGED <<storeVars, scopeVars, sessionVars, uploadVars, save, del, saved>>
  /\ UNCHANGED sweep

\* decodeURIComponent of one segment: a % must be followed by two hex digits
HexDigits == {"0", "1", "2", "3", "4", "5", "6", "7", "8", "9", "a", "b", "c", "d", "e", "f"}
Unescaped(h1, h2) ==
  IF <<h1, h2>> = <<"2", "5">> THEN "%"
  ELSE IF <<h1, h2>> = <<"2", "0">> THEN " "
  ELSE "%" \o h1 \o h2

RECURSIVE CanDecode(_)
CanDecode(seg) ==
  IF seg = <<>> THEN TRUE
  ELSE IF Head(seg) # "%" THEN CanDecode(Tail(seg))
  ELSE /\ Len(seg) >= 3
       /\ seg[2] \in HexDigits
       /\ seg[3] \in HexDigits
       /\ CanDecode(SubSeq(seg, 4, Len(seg)))

RECURSIVE DecodeSegment(_)
DecodeSegment(seg) ==
  IF seg = <<>> THEN <<>>
  ELSE IF Head(seg) # "%" THEN <<Head(seg)>> \o DecodeSegment(Tail(seg))
  ELSE <<Unescaped(seg[2], seg[3])>> \o DecodeSegment(SubSeq(seg, 4, Len(seg)))

\* the segments between the first "/word/" found from position `from` on and
\* the next one: parts[1] of pathname.split("/word/")
OccurrencesFrom(segs, word, from) ==
  {i \in from .. Len(segs) - 1 : segs[i] = <<word>>}
Min(S) == CHOOSE x \in S : \A y \in S : x <= y
SecondPart(segs, i) ==
  LET later == OccurrencesFrom(segs, "shared_files", i + 2)
  IN SubSeq(segs, i + 1, IF later = {} THEN Len(segs) ELSE Min(later) - 1)

\* pathname.includes("/object/shared_files/")
ObjectOccurrences(segs) ==
  {i \in 2 .. Len(segs) - 1 : segs[i - 1] = <<"object">> /\ segs[i] = <<"shared_files">>}

\* getStoragePathFromUrl, lines 224-249; the empty path <<>> is the "" the
\* catch block returns
getStoragePathFromUrl(url) ==
  IF ~url.abs THEN <<>>
  ELSE LET segs == url.segs
           first == OccurrencesFrom(segs, "shared_files", 1)
           part == IF first # {} THEN SecondPart(segs, Min(first))
                   ELSE IF ObjectOccurrences(segs) # {}
                     THEN SecondPart(segs, Min(ObjectOccurrences(segs)))
                     ELSE <<>>
       IN IF \A k \in 1 .. Len(part) : CanDecode(part[k])
            THEN [k \in 1 .. Len(part) |-> DecodeSegment(part[k])]
            ELSE <<>>

\* key, prefix: isPrivateSpace ? privateSpaceKey : undefined and networkPrefix
\* of the render whose handler was called
IdleDelete == [pc |-> "idle", file |-> <<>>, storagePath |-> <<>>, storagePaths |-> {},
               calls |-> <<>>, result |-> "", storageError |-> FALSE,
               key |-> Undefined, prefix |-> ""]

\* handleDeleteFile, lines 251-268: up to the await of the storage remove; a
\* client makes one call
handleDeleteFile(c, file) ==
  /\ del[c].pc = "idle"
  /\ del[c].result = ""
  /\ file \in listed[c].files
  /\ LET storagePath == getStoragePathFromUrl(file.url)
         r == [IdleDelete EXCEPT !.file = file, !.storagePath = storagePath,
                                 !.key = privateSpaceKey[c],
                                 !.prefix = index[c].networkPrefix]
     IN del' = [del EXCEPT ![c] =
                  IF file.url = [abs |-> FALSE, segs |-> <<>>]
                    THEN [r EXCEPT !.result = "invalid"]
                  ELSE IF storagePath = <<>>
                    THEN [r EXCEPT !.result = "failed"]
                    ELSE [r EXCEPT !.pc = "remove", !.calls = <<"storage">>]]
  /\ UNCHANGED <<storeVars, scopeVars, sessionVars, uploadVars, save, listed, saved>>
  /\ UNCHANGED sweep

\* lines 266-279: the storage remove returns (removing an object that does
\* not exist is no error); an error is logged and the row delete is issued
StorageRemoveReturn(c) ==
  /\ del[c].pc = "remove"
  /\ \E ok \in BOOLEAN :
       /\ storage_objects' = IF ok THEN storage_objects \ {del[c].storagePath}
                                   ELSE storage_objects
       /\ del' = [del EXCEPT ![c] = [@ EXCEPT !.pc = "dbdelete",
                                              !.storageError = ~ok,
                                              !.calls = Append(@, "database")]]
  /\ UNCHANGED <<shared_files, shared_texts, nextId, now>>
  /\ UNCHANGED <<scopeVars, sessionVars, uploadVars, save, listed, saved>>
  /\ UNCHANGED sweep

\* lines 276-294: the row delete returns
DbDeleteReturn(c) ==
  /\ del[c].pc = "dbdelete"
  /\ \E ok \in BOOLEAN :
       /\ shared_files' = IF ok THEN {r \in shared_files : r.id # del[c].file.id}
                                ELSE shared_files
       /\ del' = [del EXCEPT ![c] = [@ EXCEPT !.pc = "idle",
                                              !.result = IF ok THEN "deleted" ELSE "failed"]]
  /\ UNCHANGED <<shared_texts, storage_objects, nextId, now>>
  /\ UNCHANGED <<scopeVars, sessionVars, uploadVars, save, listed, saved>>
  /\ UNCHANGED sweep

\* the rows matched by a delete restricted to the rows whose storage path
\* could be derived
DeleteAllFilterParsed(key, prefix) ==
  {r \in shared_files : /\ getStoragePathFromUrl(r.url) # <<>>
                        /\ IF key # Undefined THEN r.private_space_key = key
                                              ELSE r.network_prefix = prefix}

\* the rows matched by the delete of lines 319-322:
\* .eq(isPrivateSpace ? "private_space_key" : "network_prefix", ...)
DeleteAllFilter(key, prefix) ==
  IF key # Undefined
    THEN {r \in shared_files : r.private_space_key = key}
    ELSE {r \in shared_files : r.network_prefix = prefix}

\* handleDeleteAllFiles, lines 297-310 and 319-322: up to the first await,
\* the storage remove when a path could be derived, the row delete otherwise;
\* the button is shown while files are listed, and a client makes one call
handleDeleteAllFiles(c) ==
  /\ del[c].pc = "idle"
  /\ del[c].result = ""
  /\ listed[c].files # {}
  /\ LET storagePaths == {getStoragePathFromUrl(file.url) : file \in listed[c].files} \ {<<>>}
         r == [IdleDelete EXCEPT !.storagePaths = storagePaths,
                                 !.key = privateSpaceKey[c],
                                 !.prefix = index[c].networkPrefix]
     IN del' = [del EXCEPT ![c] =
                  IF storagePaths # {}
                    THEN [r EXCEPT !.pc = "removeAll", !.calls = <<"storage">>]
                    ELSE [r EXCEPT !.pc = "dbdeleteAll", !.calls = <<"database">>]]
  /\ UNCHANGED <<storeVars, scopeVars, sessionVars, uploadVars, save, listed, saved>>
  /\ UNCHANGED sweep

\* lines 308-322: the storage remove returns; it removes the objects it can
\* (all of them when it reports no error); an error is logged and the row
\* delete is issued
StorageRemoveAllReturn(c) ==
  /\ del[c].pc = "removeAll"
  /\ \E removed \in SUBSET del[c].storagePaths :
       /\ storage_objects' = storage_objects \ removed
       /\ del' = [del EXCEPT ![c] = [@ EXCEPT !.pc = "dbdeleteAll",
                                              !.storageError = (removed # del[c].storagePaths),
                                              !.calls = Append(@, "database")]]
  /\ UNCHANGED <<shared_files, shared_texts, nextId, now>>
  /\ UNCHANGED <<scopeVars, sessionVars, uploadVars, save, listed, saved>>
  /\ UNCHANGED sweep

\* lines 319-337: the row delete returns
DbDeleteAllReturn(c) ==
  /\ del[c].pc = "dbdeleteAll"
  /\ \E ok \in BOOLEAN :
       /\ shared_files' =
            IF ok THEN shared_files \ DeleteAllFilter(del[c].key, del[c].prefix)
                  ELSE shared_files
       /\ del' = [del EXCEPT ![c] = [@ EXCEPT !.pc = "idle",
                                              !.result = IF ok THEN "deletedAll" ELSE "failed"]]
  /\ UNCHANGED <<shared_texts, storage_objects, nextId, now>>
  /\ UNCHANGED <<scopeVars, sessionVars, uploadVars, save, listed, saved>>
  /\ UNCHANGED sweep

(***************************************************************************)
(* Network detection: networkUtils.getClientIP, NetworkStatus.checkNetwork *)
(* and Index.handleNetworkChange; scope transitions of the Index page.     *)
(***************************************************************************)
\* An IP address is the sequence of its segments; <<>> is null / ''.
\* the address the edge function get-ip reports for the clients
ServiceIP == <<"10", "0", "0", "5">>
\* `192.168.${random}.${random}`
FallbackIPs == {<<"192", "168", "1", "7">>, <<"192", "168", "2", "7">>}

\* the two NetworkStatus components mounted: in Header and in the Index page
Instances == {"header", "page"}

RECURSIVE JoinDots(_)
JoinDots(parts) ==
  IF parts = <<>> THEN ""
  ELSE IF Len(parts) = 1 THEN Head(parts)
  ELSE Head(parts) \o "." \o JoinDots(Tail(parts))

\* getNetworkPrefix(ip, segments = 3): ip.split('.').slice(0, 3).join('.')
getNetworkPrefix(ip) ==
  IF ip = <<>> THEN "" ELSE JoinDots(SubSeq(ip, 1, IF Len(ip) < 3 THEN Len(ip) ELSE 3))

\* the Index page before any network check
IdleIndex == [networkConnected |-> FALSE, networkPrefix |-> "", clientIP |-> <<>>,
              inputKey |-> <<>>,
              subscription |-> <<>>, events |-> 0, burst |-> 0, burstRefreshes |-> 0]

isPrivateSpace(c) == privateSpaceKey[c] # Undefined

\* fetchSharedItems, lines 57-72, called from a render that captured
\* (connected, key), up to its await: st is [listed, fetches] of the client
StartFetch(st, connected, key) ==
  IF ~connected /\ key = Undefined
    THEN [st EXCEPT !.listed = NothingListed]
    ELSE [st EXCEPT !.fetches = @ \cup {[key |-> key]}]

\* the effect of lines 187-191, run after a render in which one of
\* networkConnected, networkPrefix, isPrivateSpace, privateSpaceKey changed
RefreshEffect(st, old, new) ==
  IF old = new THEN st
  ELSE IF new.networkConnected \/ new.key # Undefined
    THEN StartFetch(st, new.networkConnected, new.key)
    ELSE st

\* what the effect depends on
EffectDeps(ix, key) ==
  [networkConnected |-> ix.networkConnected, networkPrefix |-> ix.networkPrefix, key |-> key]

\* the effect of lines 195-222, run after a render in which one of its
\* dependencies changed: the channel of the earlier render is unsubscribed,
\* and a channel is subscribed unless neither connected nor in a private space
SubscriptionEffect(ix, old, new) ==
  IF old = new THEN ix
  ELSE [ix EXCEPT !.subscription =
                    IF ~new.networkConnected /\ new.key = Undefined THEN <<>>
                    ELSE <<FileFilter(new.key, new.networkPrefix)>>,
                  !.events = 0, !.burst = 0, !.burstRefreshes = 0]

\* handleNetworkChange(connected, prefix, ip), lines 110-127, and the render
\* that follows; closure is the state captured by the render that created
\* the function instance the caller holds
handleNetworkChange(c, closure, connected, prefix, ip) ==
  LET ix == index[c]
      key == privateSpaceKey[c]
      ix2 == [ix EXCEPT !.networkConnected = connected, !.networkPrefix = prefix,
                        !.clientIP = ip]
      st0 == [listed |-> listed[c], fetches |-> fetches[c]]
      st1 == IF connected /\ prefix # closure.networkPrefix
               THEN StartFetch(st0, closure.networkConnected, closure.key)
             ELSE IF ~connected /\ closure.key = Undefined
               THEN [st0 EXCEPT !.listed = NothingListed]
               ELSE st0
      st2 == RefreshEffect(st1, EffectDeps(ix, key), EffectDeps(ix2, key))
  IN /\ index' = [index EXCEPT ![c] =
                    SubscriptionEffect(ix2, EffectDeps(ix, key), EffectDeps(ix2, key))]
     /\ listed' = [listed EXCEPT ![c] = st2.listed]
     /\ fetches' = [fetches EXCEPT ![c] = st2.fetches]

IdleCall == [pc |-> "idle", closure |-> EffectDeps(IdleIndex, Undefined)]

\* checkNetwork of instance n, lines 29-36 of NetworkStatus, with getClientIP
\* lines 298-308: the cached address is returned, or the edge function is
\* invoked.  The effect that calls it runs at mount and after every render
\* of Index (its dependency onNetworkChange is a new function each render).
checkNetwork(c, n) ==
  /\ ipCall[c][n].pc = "idle"
  /\ IF cachedClientIP[c] # <<>>
       THEN /\ handleNetworkChange(c, EffectDeps(index[c], privateSpaceKey[c]), TRUE,
                                   IF getCachedNetworkPrefix(c) # ""
                                     THEN getCachedNetworkPrefix(c)
                                     ELSE getNetworkPrefix(cachedClientIP[c]),
                                   cachedClientIP[c])
            /\ UNCHANGED ipCall
       ELSE /\ ipCall' = [ipCall EXCEPT ![c][n] =
                           [pc |-> "invoke",
                            closure |-> EffectDeps(index[c], privateSpaceKey[c])]]
            /\ UNCHANGED <<index, listed, fetches>>
  /\ UNCHANGED <<storeVars, scopeVars, uploadVars, save, del, saved>>
  /\ UNCHANGED <<cachedClientIP, editor>>
  /\ UNCHANGED sweep

\* getClientIP lines 306-333 and checkNetwork lines 36-55: the invocation of
\* the edge function returns with the address, or fails and the fallback
\* address is used unless an address is cached by now
InvokeReturn(c, n) ==
  /\ ipCall[c][n].pc = "invoke"
  /\ \E ok \in BOOLEAN, fallback \in FallbackIPs :
       LET clientIP == IF ok THEN ServiceIP
                       ELSE IF cachedClientIP[c] = <<>> THEN fallback
                       ELSE cachedClientIP[c]
           assigned == ok \/ cachedClientIP[c] = <<>>
           cachedPrefix == IF assigned THEN getNetworkPrefix(clientIP)
                                       ELSE cachedNetworkPrefix[c]
       IN /\ cachedClientIP' = [cachedClientIP EXCEPT ![c] = clientIP]
          /\ cachedNetworkPrefix' = [cachedNetworkPrefix EXCEPT ![c] = cachedPrefix]
          /\ handleNetworkChange(c, ipCall[c][n].closure, TRUE,
                                 IF cachedPrefix # "" THEN cachedPrefix
                                                      ELSE getNetworkPrefix(clientIP),
                                 clientIP)
  /\ ipCall' = [ipCall EXCEPT ![c][n] = IdleCall]
  /\ UNCHANGED <<storeVars, privateSpaceKey, uploadVars, save, del, saved, editor>>
  /\ UNCHANGED sweep

\* The state of the TextShare component, which Index renders.
\* text, lastSavedContent, autoSaveStatus: the state of lines 18-21;
\* saveInProgress: the ref of line 22; timer: the argument of the pending
\* call of debouncedSave (<<>> when none is pending); pc, content: position
\* and argument of saveContent; loading: a loadContent call is in flight;
\* filter: the filter of the subscription of lines 94-116 (<<>> when there is
\* none); events: the contents of the change events on their way to it;
\* delivered: the number of events its handler has run for; lostEdit: an
\* event has replaced a text that differed from lastSavedContent;
\* inFlight: the saveSharedText calls of the session that have not returned;
\* timerStale: the pending timer was armed before a manual save that wrote;
\* manualOverTimer: the save in flight is a manual save made while a
\* debounced call was pending
IdleEditor ==
  [text |-> "", lastSavedContent |-> "", autoSaveStatus |-> "saved",
   saveInProgress |-> FALSE, timer |-> <<>>, timerStale |-> FALSE,
   pc |-> "idle", content |-> "", loading |-> FALSE, manualOverTimer |-> FALSE,
   inFlight |-> 0, filter |-> <<>>, events |-> <<>>, delivered |-> 0,
   lostEdit |-> FALSE]

\* debouncedSave.cancel() leaving the pending call in place
CancelNothing(ed) == ed

\* debouncedSave.cancel()
CancelDebounce(ed) == [ed EXCEPT !.timer = <<>>, !.timerStale = FALSE]

\* Index renders again (any change of its state): onTextShared is a new
\* function, so saveContent and debouncedSave are new (lines 48, 55) and the
\* effect of lines 78-122 runs again.  Its cleanup unsubscribes the channel,
\* so the events on their way are not handled, and cancels the pending call
\* of the previous debouncedSave; then loadContent is called and a new
\* subscription is made.  connected and key are the props of the render,
\* prefix the prefix cached when the effect runs.
RenderEffectIn(ed, connected, key, prefix) ==
  [CancelDebounce(ed) EXCEPT
     !.loading = connected,
     !.events = <<>>,
     !.filter = IF connected THEN <<TextFilter(key, prefix)>> ELSE <<>>]

RenderEffect(c, ed) ==
  RenderEffectIn(ed, networkConnected(c), privateSpaceKey[c], getCachedNetworkPrefix(c))

\* the render of TextShare that follows a change of the scope of Index to
\* key; TextShare is mounted while the Text tab is shown (Index.tsx lines
\* 428-434), and the editor of a page that shows the File tab stays idle
TextShareRender(ed, key, prefix) ==
  IF ed = IdleEditor THEN ed
  ELSE RenderEffectIn(ed, prefix # "" \/ key # Undefined, key, prefix)

\* the keys a user can type into the modal: nothing, a blank, a word
InputKeys == {<<>>, <<" ">>, <<"K">>}

\* enterPrivateSpace, lines 87-98, with the typing of inputKey before it and
\* the render after it; the modal is offered while not in a private space
enterPrivateSpace(c, inputKey) ==
  /\ ~isPrivateSpace(c)
  /\ IF inputKey = <<>>
       THEN /\ index' = [index EXCEPT ![c].inputKey = inputKey]
            /\ editor' = [editor EXCEPT ![c] =
                 TextShareRender(@, privateSpaceKey[c], getCachedNetworkPrefix(c))]
            /\ UNCHANGED <<privateSpaceKey, listed, fetches>>
       ELSE LET ix == index[c]
                key == Concat(inputKey)
                ix2 == [ix EXCEPT !.networkConnected = FALSE, !.inputKey = inputKey]
                st0 == [listed |-> listed[c], fetches |-> fetches[c]]
                st1 == StartFetch(st0, ix.networkConnected, privateSpaceKey[c])
                st2 == RefreshEffect(st1, EffectDeps(ix, privateSpaceKey[c]),
                                     EffectDeps(ix2, key))
            IN /\ privateSpaceKey' = [privateSpaceKey EXCEPT ![c] = key]
               /\ index' = [index EXCEPT ![c] =
                              SubscriptionEffect(ix2, EffectDeps(ix, privateSpaceKey[c]),
                                                 EffectDeps(ix2, key))]
               /\ listed' = [listed EXCEPT ![c] = st2.listed]
               /\ fetches' = [fetches EXCEPT ![c] = st2.fetches]
               /\ editor' = [editor EXCEPT ![c] =
                    TextShareRender(@, key, getCachedNetworkPrefix(c))]
  /\ UNCHANGED <<storeVars, cachedNetworkPrefix, uploadVars, save, del, saved>>
  /\ UNCHANGED <<cachedClientIP, ipCall>>
  /\ UNCHANGED sweep

\* exitPrivateSpace, lines 101-107, and the render after it
exitPrivateSpace(c) ==
  /\ isPrivateSpace(c)
  /\ LET ix == index[c]
         ix2 == [ix EXCEPT !.inputKey = <<>>]
         st0 == [listed |-> listed[c], fetches |-> fetches[c]]
         st1 == StartFetch(st0, ix.networkConnected, privateSpaceKey[c])
         st2 == RefreshEffect(st1, EffectDeps(ix, privateSpaceKey[c]),
                              EffectDeps(ix2, Undefined))
     IN /\ privateSpaceKey' = [privateSpaceKey EXCEPT ![c] = Undefined]
        /\ index' = [index EXCEPT ![c] =
                       SubscriptionEffect(ix2, EffectDeps(ix, privateSpaceKey[c]),
                                          EffectDeps(ix2, Undefined))]
        /\ listed' = [listed EXCEPT ![c] = st2.listed]
        /\ fetches' = [fetches EXCEPT ![c] = st2.fetches]
        /\ editor' = [editor EXCEPT ![c] =
             TextShareRender(@, Undefined, getCachedNetworkPrefix(c))]
  /\ UNCHANGED <<storeVars, cachedNetworkPrefix, uploadVars, save, del, saved>>
  /\ UNCHANGED <<cachedClientIP, ipCall>>
  /\ UNCHANGED sweep

\* fetchSharedItems lines 69-83: both queries of a call in flight return and
\* the lists are set; the queries read the prefix cached when they run
FetchItemsReturn(c) ==
  /\ \E f \in fetches[c], okFiles \in BOOLEAN, okTexts \in BOOLEAN :
       /\ fetches' = [fetches EXCEPT ![c] = @ \ {f}]
       /\ listed' = [listed EXCEPT ![c] =
            [files |-> fetchSharedFiles(f.key, getCachedNetworkPrefix(c), okFiles),
             texts |-> fetchSharedTexts(f.key, getCachedNetworkPrefix(c), okTexts)]]
  /\ UNCHANGED <<storeVars, scopeVars, uploadVars, save, del, saved>>
  /\ UNCHANGED <<cachedClientIP, ipCall, index, editor>>
  /\ UNCHANGED sweep

\* the handler of lines 209-212: a change event of the channel is handled,
\* fetchSharedItems() is called as the render that made the subscription
\* defined it
FileChange(c) ==
  /\ index[c].subscription # <<>>
  /\ index[c].events > 0
  /\ LET st == StartFetch([listed |-> listed[c], fetches |-> fetches[c]],
                          index[c].networkConnected, privateSpaceKey[c])
     IN /\ listed' = [listed EXCEPT ![c] = st.listed]
        /\ fetches' = [fetches EXCEPT ![c] = st.fetches]
  /\ index' = [index EXCEPT ![c].events = @ - 1, ![c].burstRefreshes = @ + 1]
  /\ UNCHANGED <<storeVars, scopeVars, uploadVars, save, del, saved>>
  /\ UNCHANGED <<cachedClientIP, ipCall, editor>>
  /\ UNCHANGED sweep

(***************************************************************************)
(* Text editor: the TextShare component.                                   *)
(***************************************************************************)
\* the texts a user can have in the textarea
EditorTexts == Contents \cup {""}

\* lines 29-34 without the assignments of lines 30-31
MarkSavingNoFlag(ed, newContent) ==
  [ed EXCEPT !.autoSaveStatus = "saving", !.pc = "saving", !.content = newContent,
             !.inFlight = @ + 1]

\* lines 29-34: the ref and isSaving are set, the status is 'saving' and
\* saveSharedText is called
MarkSaving(ed, newContent) ==
  [ed EXCEPT !.saveInProgress = TRUE, !.autoSaveStatus = "saving",
             !.pc = "saving", !.content = newContent, !.inFlight = @ + 1]

\* saveContent(newContent), lines 26-34, up to the await of saveSharedText.
\* The store calls of one saveSharedText are followed; a call made while
\* one is being followed is counted in inFlight only.
saveContent(c, ed, newContent) ==
  IF ed.saveInProgress \/ ~networkConnected(c)
    THEN /\ editor' = [editor EXCEPT ![c] = ed]
         /\ UNCHANGED save
    ELSE /\ editor' = [editor EXCEPT ![c] = MarkSaving(ed, newContent)]
         /\ IF ed.pc = "idle"
              THEN saveSharedTextCall(c, newContent)
              ELSE UNCHANGED save

\* the Textarea (line 150) and the Save button (line 164) are disabled
\* while !networkConnected || isSaving; isSaving is set and reset together
\* with the ref saveInProgress (lines 30-31, 44-45)
Enabled(c) == networkConnected(c) /\ ~editor[c].saveInProgress

\* line 23
maxLength == 5000

\* a text of n characters
RECURSIVE TextOfLength(_)
TextOfLength(n) ==
  IF n = 0 THEN ""
  ELSE IF n % 2 = 0 THEN LET half == TextOfLength(n \div 2) IN half \o half
  ELSE "x" \o TextOfLength(n - 1)

\* the test of line 61 left out
FitsAlways(newContent) == TRUE

\* line 61: newContent.length <= maxLength
Fits(newContent) == Len(newContent) <= maxLength

\* handleTextChange, lines 59-68, on a change of the textarea: a content over
\* maxLength is ignored; otherwise the text is set and, when it differs from
\* lastSavedContent, the debounced call is (re)armed with the new content
handleTextChange(c, newContent) ==
  /\ Enabled(c)
  /\ newContent # editor[c].text
  /\ editor' = [editor EXCEPT ![c] =
       IF ~Fits(newContent) THEN @
       ELSE IF newContent # editor[c].lastSavedContent
         THEN [@ EXCEPT !.text = newContent, !.autoSaveStatus = "unsaved",
                        !.timer = <<newContent>>, !.timerStale = FALSE]
         ELSE [@ EXCEPT !.text = newContent]]
  /\ UNCHANGED <<storeVars, scopeVars, uploadVars, save, del, listed, saved>>
  /\ UNCHANGED <<cachedClientIP, ipCall, index, fetches>>
  /\ UNCHANGED sweep

\* lines 51-56: the quiet period of the pending debounced call has elapsed
DebounceFire(c) ==
  /\ editor[c].timer # <<>>
  /\ saveContent(c, [editor[c] EXCEPT !.timer = <<>>, !.timerStale = FALSE],
                 editor[c].timer[1])
  /\ UNCHANGED <<storeVars, scopeVars, uploadVars, del, listed, saved>>
  /\ UNCHANGED <<cachedClientIP, ipCall, index, fetches>>
  /\ UNCHANGED sweep

\* handleSave, lines 71-75
handleSave(c) ==
  /\ Enabled(c)
  /\ editor[c].text # editor[c].lastSavedContent
  /\ LET ed == editor[c]
         writes == ~ed.saveInProgress /\ networkConnected(c)
         marked == [ed EXCEPT !.timerStale = (ed.timer # <<>> /\ writes),
                              !.manualOverTimer = (ed.timer # <<>> /\ writes)]
     IN saveContent(c, CancelDebounce(marked), ed.text)
  /\ UNCHANGED <<storeVars, scopeVars, uploadVars, del, listed, saved>>
  /\ UNCHANGED <<cachedClientIP, ipCall, index, fetches>>
  /\ UNCHANGED sweep

\* saveContent lines 34-47: saveSharedText has returned or thrown.  On
\* success onTextShared runs Index.fetchSharedItems, whose setIsLoading makes
\* Index render again.
SaveContentReturn(c) ==
  /\ editor[c].pc = "saving"
  /\ save[c].pc = "idle"
  /\ editor' = [editor EXCEPT ![c] =
       IF save[c].result = "saved"
         THEN RenderEffect(c,
                [@ EXCEPT !.lastSavedContent = editor[c].content,
                          !.autoSaveStatus = "saved",
                          !.saveInProgress = FALSE, !.pc = "idle", !.content = "",
                          !.manualOverTimer = FALSE, !.inFlight = @ - 1])
         ELSE [@ EXCEPT !.autoSaveStatus = "unsaved",
                        !.saveInProgress = FALSE, !.pc = "idle", !.content = "",
                        !.manualOverTimer = FALSE, !.inFlight = @ - 1]]
  /\ UNCHANGED <<storeVars, scopeVars, uploadVars, save, del, listed, saved>>
  /\ UNCHANGED <<cachedClientIP, ipCall, index, fetches>>
  /\ UNCHANGED sweep

\* a render of Index for a reason of its own (network check, list refresh)
Rerender(c) ==
  /\ editor' = [editor EXCEPT ![c] = RenderEffect(c, @)]
  /\ UNCHANGED <<storeVars, scopeVars, uploadVars, save, del, listed, saved>>
  /\ UNCHANGED <<cachedClientIP, ipCall, index, fetches>>
  /\ UNCHANGED sweep

\* texts[0] of the newest-first result
NewestText(texts) == CHOOSE r \in texts : \A q \in texts : q.id <= r.id

\* loadContent, lines 81-91: fetchSharedTexts returns
LoadContentReturn(c) ==
  /\ editor[c].loading
  /\ \E ok \in BOOLEAN :
       LET texts == fetchSharedTexts(privateSpaceKey[c], getCachedNetworkPrefix(c), ok)
       IN editor' = [editor EXCEPT ![c] =
            IF texts # {}
              THEN [@ EXCEPT !.text = NewestText(texts).content,
                             !.lastSavedContent = NewestText(texts).content,
                             !.loading = FALSE]
              ELSE [@ EXCEPT !.loading = FALSE]]
  /\ UNCHANGED <<storeVars, scopeVars, uploadVars, save, del, listed, saved>>
  /\ UNCHANGED <<cachedClientIP, ipCall, index, fetches>>
  /\ UNCHANGED sweep

\* the handler of lines 105-111 without the overwrite when the text differs
\* from lastSavedContent
ApplyChangeUnlessEdited(ed, newContent) ==
  IF ed.text # ed.lastSavedContent THEN ed
  ELSE [ed EXCEPT !.text = newContent, !.lastSavedContent = newContent]

\* the handler of lines 105-111: payload.new carries a content
ApplyChange(ed, newContent) ==
  [ed EXCEPT !.text = newContent, !.lastSavedContent = newContent]

\* the subscription of lines 94-116: the next change event arrives
RealtimeChange(c) ==
  /\ editor[c].events # <<>>
  /\ editor' = [editor EXCEPT ![c] =
       [ApplyChange(@, Head(@.events)) EXCEPT
          !.events = Tail(@),
          !.delivered = @ + 1,
          !.lostEdit = @ \/ (editor[c].text # editor[c].lastSavedContent
                             /\ editor[c].text # Head(editor[c].events))]]
  /\ UNCHANGED <<storeVars, scopeVars, uploadVars, save, del, listed, saved>>
  /\ UNCHANGED <<cachedClientIP, ipCall, index, fetches>>
  /\ UNCHANGED sweep

\* TextShare after its mount: the effect of lines 78-122 has run
MountedEditor(c) == RenderEffect(c, IdleEditor)

(***************************************************************************)
(* The sweeper: cleanup_old_files of supabase_setup.sql, run by pg_cron.    *)
(* Where it runs, one tick of the clock is 30 minutes.                      *)
(***************************************************************************)
\* ticks of a day
Day == 48
\* (5 * 60 + 30) minutes, in ticks
IST_OFFSET == 11
\* INTERVAL '7 days'
RETENTION_DAYS == 7
\* "files and texts older than 2 days", "Files auto-delete after 2 days"
DOCUMENTED_DAYS == 2
\* LIMIT 1000
SWEEP_LIMIT == 1000

\* getISTTimestamp() called at time t: the instant t + 5:30, written with the
\* suffix Z of toISOString(), that is as a UTC instant
getISTTimestamp(t) == t + IST_OFFSET

\* a row as the writer stores it at time t: shared_at: getISTTimestamp();
\* written is the time of the write itself
Stamped(row, t) ==
  [f \in DOMAIN row \cup {"shared_at", "written"} |->
     IF f = "shared_at" THEN getISTTimestamp(t)
     ELSE IF f = "written" THEN t
     ELSE row[f]]

\* NULL of SQL for a path
NoPath == << <<"NULL">> >>

\* get_storage_path_from_url(url): what follows the first '/shared_files/',
\* NULL when the url holds none
get_storage_path_from_url(url) ==
  LET at == {i \in 1 .. Len(url.segs) - 1 : url.segs[i] = <<"shared_files">>}
  IN IF at = {} THEN NoPath
     ELSE LET first == CHOOSE i \in at : \A j \in at : i <= j
          IN SubSeq(url.segs, first + 1, Len(url.segs))

\* the sets of k rows of rows
RECURSIVE Leaving(_, _)
Leaving(rows, k) ==
  IF k <= 0 THEN {{}}
  ELSE UNION {{left \cup {r} : r \in rows \ left} : left \in Leaving(rows, k - 1)}

\* what a query with LIMIT n and no ORDER BY can leave out: it returns any n
\* of the rows
BeyondLimit(rows, n) == Leaving(rows, Cardinality(rows) - n)

NoSweep ==
  [runs |-> 0, at |-> 0, leftOut |-> {}, failed |-> {}, deletedCount |-> 0,
   deletedBlobs |-> 0, deletedWritten |-> {}, prevAt |-> 0, prevFailed |-> {}, prevLeftOut |-> {}]

\* the files whose deletion can raise an exception
FailureIds == {1, 2}

\* the loop without the EXCEPTION block: an exception ends the function and
\* its transaction is rolled back
LoopOutcomeAborting(selected, failing, skipped) ==
  IF failing = {} THEN [files |-> selected \ skipped, completed |-> TRUE]
  ELSE [files |-> {}, completed |-> FALSE]

\* lines 125-154: the loop over the selected rows.  An iteration that raises
\* is rolled back alone (EXCEPTION WHEN OTHERS) and the loop goes on; skipped
\* are the rows whose path is NULL.  files: the rows the loop has deleted;
\* completed: the function has gone past the loop.
LoopOutcome(selected, failing, skipped) ==
  [files |-> selected \ (failing \cup skipped), completed |-> TRUE]

\* one run of cleanup_old_files(), lines 104-166; it is one transaction.
\* (A value bound by \E x \in {e} is computed once for the run.)
cleanup_old_files ==
  /\ sweep.runs < MaxSweeps
  /\ \E cutoff_date \in {now - RETENTION_DAYS * Day} :
     \E eligible \in {{r \in shared_files : r.shared_at < cutoff_date}} :
     \E skipped \in {{r \in eligible : get_storage_path_from_url(r.url) = NoPath}} :
     \E canFail \in {{r \in eligible : r.id \in FailureIds}} :
     \E left \in BeyondLimit(eligible, SWEEP_LIMIT) :
     \E failing \in SUBSET (canFail \ left) :
     \E outcome \in {LoopOutcome(eligible \ left, failing, skipped)} :
     \E files \in {{r \in shared_files : r \in outcome.files}} :
     \E blobs \in {{get_storage_path_from_url(r.url) : r \in files}} :
     \E oldTexts \in {IF outcome.completed
                         THEN {r \in shared_texts : r.shared_at < cutoff_date}
                         ELSE {}} :
       /\ sweep' = [runs |-> sweep.runs + 1,
                    at |-> now,
                    leftOut |-> {r.id : r \in left},
                    failed |-> {r.id : r \in failing},
                    deletedCount |-> Cardinality(files) + Cardinality(oldTexts),
                    deletedBlobs |-> Cardinality(blobs),
                    deletedWritten |-> {r.written : r \in files \cup oldTexts},
                    prevAt |-> sweep.at,
                    prevFailed |-> sweep.failed,
                    prevLeftOut |-> sweep.leftOut]
       /\ shared_files' = {r \in shared_files : r \notin files}
       /\ storage_objects' = storage_objects \ blobs
       /\ shared_texts' = shared_texts \ oldTexts
  /\ UNCHANGED <<nextId, now>>
  /\ UNCHANGED <<scopeVars, uploadVars, save, del, listed, saved, sessionVars>>

\* the time of the first run observed
SweepStart == 9 * Day

\* a day passes
Advance ==
  /\ now + Day <= SweepStart + MaxSweepDays * Day
  /\ now' = now + Day
  /\ UNCHANGED <<shared_files, shared_texts, storage_objects, nextId>>
  /\ UNCHANGED <<scopeVars, uploadVars, save, del, listed, saved, sessionVars, sweep>>

(***************************************************************************)
(* Initial states.                                                         *)
(***************************************************************************)

\* a file uploaded earlier (at time 0) to the network scope of prefix
OldPath(i) == UniqueFilePath(0, <<"o", ToString(i)>>)
OldRow(i, prefix) ==
  NewFileRow(i, [name |-> <<"o", ToString(i)>>, size |-> 1], OldPath(i), Undefined, prefix)

\* the numbers of files the scope holds when the model starts
InitialCounts == {MAX_FILES - 1, MAX_FILES}

InitSessionState ==
  /\ upload = [p \in Procs |-> IdleUpload]
  /\ uploadRef = [c \in Clients |-> FALSE]
  /\ isUploading = [c \in Clients |-> FALSE]
  /\ uploadProgress = [c \in Clients |-> 0]
  /\ cancelUpload = [c \in Clients |-> FALSE]
  /\ save = [c \in Clients |-> IdleSave]
  /\ del = [c \in Clients |-> IdleDelete]
  /\ listed = [c \in Clients |-> NothingListed]
  /\ saved = [sc \in Scopes |-> ""]
  /\ cachedClientIP = [c \in Clients |->
       IF cachedNetworkPrefix[c] = "" THEN <<>>
       ELSE IF cachedNetworkPrefix[c] = "10.0.0" THEN ServiceIP
       ELSE <<"10", "0", "1", "5">>]
  /\ ipCall = [c \in Clients |-> [n \in Instances |-> IdleCall]]
  /\ fetches = [c \in Clients |-> {}]
  /\ sweep = NoSweep

\* the state of the Index page of a client whose network check has been made
CheckedIndex(c) ==
  [IdleIndex EXCEPT !.networkConnected = (cachedNetworkPrefix[c] # ""
                                            /\ privateSpaceKey[c] = Undefined),
                    !.networkPrefix = cachedNetworkPrefix[c],
                    !.clientIP = cachedClientIP[c]]

\* the same with the subscription the effect of lines 195-222 has made
SubscribedIndex(c) ==
  SubscriptionEffect(CheckedIndex(c), EffectDeps(IdleIndex, Undefined),
                     EffectDeps(CheckedIndex(c), privateSpaceKey[c]))

\* the change feed of shared_files is followed by the specification of the
\* feed alone; elsewhere the pages have no subscription
InitPageState ==
  /\ InitSessionState
  /\ index = [c \in Clients |-> CheckedIndex(c)]

InitClientState ==
  /\ InitPageState
  /\ editor = [c \in Clients |-> IdleEditor]

\* c1 is on the network 10.0.0, whose scope already holds k files; c2, on the
\* same network, is in the private space K, which is empty; c3 has neither a
\* network prefix nor a key
InitScopes ==
  /\ cachedNetworkPrefix = [c \in Clients |-> IF c = "c3" THEN "" ELSE "10.0.0"]
  /\ privateSpaceKey = [c \in Clients |-> IF c = "c2" THEN "K" ELSE Undefined]

InitUpload ==
  /\ \E k \in InitialCounts :
       /\ shared_files = {OldRow(i, "10.0.0") : i \in 1 .. k}
       /\ storage_objects = {OldPath(i) : i \in 1 .. k}
       /\ nextId = k + 1
  /\ shared_texts = {}
  /\ now = 1
  /\ InitScopes
  /\ InitClientState

NextUpload ==
  \/ \E p \in UploadCalls, c \in Clients, fileList \in Batches : handleUpload(p, c, fileList)
  \/ \E p \in UploadCalls : FetchExistingReturn(p)
  \/ \E p \in UploadCalls : StorageUploadReturn(p)
  \/ \E p \in UploadCalls : InsertReturn(p)
  \/ \E p \in UploadCalls : RefreshReturn(p)
  \/ \E c \in Clients : handleCancelUpload(c)

SpecUpload == InitUpload /\ [][NextUpload]_vars

\* c1 and c2 are on the network 10.0.0; c3, on the same network, is in the
\* private space whose key is the string 10.0.0
InitTextScopes ==
  /\ cachedNetworkPrefix = [c \in Clients |-> "10.0.0"]
  /\ privateSpaceKey = [c \in Clients |-> IF c = "c3" THEN "10.0.0" ELSE Undefined]

InitText ==
  /\ shared_files = {}
  /\ storage_objects = {}
  /\ shared_texts = {}
  /\ nextId = 1
  /\ now = 1
  /\ InitTextScopes
  /\ InitClientState

\* saveSharedText calls of all clients, overlapping at will
NextText ==
  \/ \E c \in Clients, content \in Contents : saveSharedText(c, content)
  \/ \E c \in Clients : SelectReturn(c)
  \/ \E c \in Clients : UpdateReturn(c)
  \/ \E c \in Clients : TextInsertReturn(c)

SpecText == InitText /\ [][NextText]_vars

\* saveSharedText calls executed one after another
NextTextSeq ==
  \/ \E c \in Clients, content \in Contents : saveSharedTextAlone(c, content)
  \/ \E c \in Clients : SelectReturn(c)
  \/ \E c \in Clients : UpdateReturn(c)
  \/ \E c \in Clients : TextInsertReturn(c)

SpecTextSeq == InitText /\ [][NextTextSeq]_vars

\* c1 is on the network 10.0.0 and c2 on the network 10.0.1; c3, on c1's
\* network, is in the private space whose key is the string 10.0.0
InitGatewayScopes ==
  /\ cachedNetworkPrefix = [c \in Clients |-> IF c = "c2" THEN "10.0.1" ELSE "10.0.0"]
  /\ privateSpaceKey = [c \in Clients |-> IF c = "c3" THEN "10.0.0" ELSE Undefined]

Init ==
  /\ shared_files = {}
  /\ storage_objects = {}
  /\ shared_texts = {}
  /\ nextId = 1
  /\ now = 1
  /\ InitGatewayScopes
  /\ InitClientState

SingleFileBatches == {fileList \in Batches : Len(fileList) = 1}

CallsMade == SavesMade(Clients) + Cardinality({p \in Procs : upload[p].pc # "idle"})

GatewayUpload(p, c, fileList) ==
  /\ CallsMade < MaxCalls
  /\ handleUpload(p, c, fileList)

GatewaySave(c, content) ==
  /\ CallsMade < MaxCalls
  /\ saveSharedText(c, content)

\* the storage gateway under clients of three scopes: an upload of one file
\* and saveSharedText calls, overlapping at will
Next ==
  \/ \E p \in UploadCalls, c \in Clients, fileList \in SingleFileBatches :
       GatewayUpload(p, c, fileList)
  \/ \E p \in UploadCalls : FetchExistingReturn(p)
  \/ \E p \in UploadCalls : StorageUploadReturn(p)
  \/ \E p \in UploadCalls : InsertReturn(p)
  \/ \E p \in UploadCalls : RefreshReturn(p)
  \/ \E c \in Clients, content \in Contents : GatewaySave(c, content)
  \/ \E c \in Clients : SelectReturn(c)
  \/ \E c \in Clients : UpdateReturn(c)
  \/ \E c \in Clients : TextInsertReturn(c)

Spec == Init /\ [][Next]_vars

\* The rows of the network 10.0.0 when the delete specification starts, one
\* for each shape of stored URL: the public URL uploadFile stores, the object
\* URL, and the bucket-relative path of older rows.
StoredUrl(shape, path) ==
  IF shape = "public" THEN getPublicUrl(path)
  ELSE IF shape = "object" THEN [abs |-> TRUE, segs |-> ObjectUrlPrefix \o path]
  ELSE [abs |-> FALSE, segs |-> path]

UrlShapes == <<"public", "object", "relative">>

StoredRow(i) == [OldRow(i, "10.0.0") EXCEPT !.url = StoredUrl(UrlShapes[i], OldPath(i))]

InitDelete ==
  /\ shared_files = {StoredRow(i) : i \in 1 .. Len(UrlShapes)}
  /\ storage_objects = {OldPath(i) : i \in 1 .. Len(UrlShapes)}
  /\ shared_texts = {}
  /\ nextId = Len(UrlShapes) + 1
  /\ now = 1
  /\ InitTextScopes
  /\ InitClientState

NextDelete ==
  \/ \E c \in Clients : fetchSharedItems(c)
  \/ \E c \in Clients : \E file \in listed[c].files : handleDeleteFile(c, file)
  \/ \E c \in Clients : StorageRemoveReturn(c)
  \/ \E c \in Clients : DbDeleteReturn(c)
  \/ \E c \in Clients : handleDeleteAllFiles(c)
  \/ \E c \in Clients : StorageRemoveAllReturn(c)
  \/ \E c \in Clients : DbDeleteAllReturn(c)

SpecDelete == InitDelete /\ [][NextDelete]_vars


\* The Index page of one client from its mount on: nothing is cached and the
\* page is in network mode.  The network 10.0.0 and the private space K hold
\* a file and a text each.
PageClients == {"c1"}

InitIndex ==
  /\ shared_files =
       {NewFileRow(1, [name |-> <<"a">>, size |-> 12], UniqueFilePath(0, <<"a">>),
                   Undefined, "10.0.0"),
        NewFileRow(2, [name |-> <<"a", "1">>, size |-> 2], UniqueFilePath(0, <<"a", "1">>),
                   "K", "")}
  /\ storage_objects = {UniqueFilePath(0, <<"a">>), UniqueFilePath(0, <<"a", "1">>)}
  /\ shared_texts = {NewTextRow(3, "hello", Undefined, "10.0.0"),
                     NewTextRow(4, "hello world", "K", "")}
  /\ nextId = 5
  /\ now = 1
  /\ cachedNetworkPrefix = [c \in Clients |-> ""]
  /\ privateSpaceKey = [c \in Clients |-> Undefined]
  /\ InitClientState

NextIndex ==
  \/ \E c \in PageClients, n \in Instances : checkNetwork(c, n)
  \/ \E c \in PageClients, n \in Instances : InvokeReturn(c, n)
  \/ \E c \in PageClients, inputKey \in InputKeys : enterPrivateSpace(c, inputKey)
  \/ \E c \in PageClients : exitPrivateSpace(c)
  \/ \E c \in PageClients : FetchItemsReturn(c)

SpecIndex == InitIndex /\ [][NextIndex]_vars

\* The text editor of one client of the network 10.0.0, whose scope holds no
\* text or the text "hello"; another client of the network saves texts too.
EditorClients == {"c1"}
RemoteWriters == {"c2"}

InitEditor ==
  /\ shared_files = {}
  /\ storage_objects = {}
  /\ \E k \in {0, 1} :
       /\ shared_texts = {NewTextRow(i, "hello", Undefined, "10.0.0") : i \in 1 .. k}
       /\ nextId = k + 1
  /\ now = 1
  /\ InitTextScopes
  /\ InitPageState
  /\ editor = [c \in Clients |->
                 IF c \in EditorClients THEN MountedEditor(c) ELSE IdleEditor]

NextEditor ==
  \/ \E c \in EditorClients, newContent \in EditorTexts : handleTextChange(c, newContent)
  \/ \E c \in EditorClients : DebounceFire(c)
  \/ \E c \in EditorClients : handleSave(c)
  \/ \E c \in RemoteWriters, content \in Contents : saveSharedText(c, content)
  \/ \E c \in EditorClients \cup RemoteWriters : SelectReturn(c)
  \/ \E c \in EditorClients \cup RemoteWriters : UpdateReturn(c)
  \/ \E c \in EditorClients \cup RemoteWriters : TextInsertReturn(c)
  \/ \E c \in EditorClients : SaveContentReturn(c)
  \/ \E c \in EditorClients : Rerender(c)
  \/ \E c \in EditorClients : LoadContentReturn(c)
  \/ \E c \in EditorClients : RealtimeChange(c)

SpecEditor == InitEditor /\ [][NextEditor]_vars

\* The editor of c1 alone, fed with texts of maxLength characters and more:
\* typed texts and pasted ones.
LongTexts == {"", "hello", TextOfLength(maxLength), TextOfLength(maxLength + 1),
              TextOfLength(2 * maxLength)}

NextLength ==
  \/ \E c \in EditorClients, newContent \in LongTexts : handleTextChange(c, newContent)
  \/ \E c \in EditorClients : DebounceFire(c)
  \/ \E c \in EditorClients : handleSave(c)
  \/ \E c \in EditorClients : SelectReturn(c)
  \/ \E c \in EditorClients : UpdateReturn(c)
  \/ \E c \in EditorClients : TextInsertReturn(c)
  \/ \E c \in EditorClients : SaveContentReturn(c)
  \/ \E c \in EditorClients : Rerender(c)
  \/ \E c \in EditorClients : LoadContentReturn(c)
  \/ \E c \in EditorClients : RealtimeChange(c)

SpecLength == InitEditor /\ [][NextLength]_vars

\* The sweeper and the rows it finds.  Either two files and a text of the
\* network 10.0.0, each written 1 day, 3 days, 7 days and 1 hour, or 7 days
\* and 6 hours before the first run; or SWEEP_LIMIT + 1 files written 8 days
\* before it.
Ages == {Day, 3 * Day, RETENTION_DAYS * Day + 2, RETENTION_DAYS * Day + IST_OFFSET + 1}

\* the ids of SWEEP_LIMIT + 1 files
ManyIds == 3 .. SWEEP_LIMIT + 3

StoredFile(i, age) == Stamped(OldRow(i, "10.0.0"), SweepStart - age)
StoredText(i, age) == Stamped(NewTextRow(i, "hello", Undefined, "10.0.0"), SweepStart - age)

InitSweep ==
  /\ \/ \E age1 \in Ages, age2 \in Ages, age3 \in Ages :
          /\ shared_files = {StoredFile(1, age1), StoredFile(2, age2)}
          /\ storage_objects = {OldPath(1), OldPath(2)}
          /\ shared_texts = {StoredText(3, age3)}
          /\ nextId = 4
     \/ /\ shared_files = {StoredFile(i, 8 * Day) : i \in ManyIds}
        /\ storage_objects = {OldPath(i) : i \in ManyIds}
        /\ shared_texts = {}
        /\ nextId = SWEEP_LIMIT + 4
  /\ now = SweepStart
  /\ InitTextScopes
  /\ InitClientState

NextSweep ==
  \/ cleanup_old_files
  \/ Advance

SpecSweep == InitSweep /\ [][NextSweep]_vars

\* The Index page of c1, on the network 10.0.0, subscribed to the changes of
\* shared_files, while c2, on the same network, or c3, in the private space
\* whose key is 10.0.0, uploads a batch of files.
FeedClients == {"c1"}
Uploaders == {"c2", "c3"}

InitFeed ==
  /\ shared_files = {}
  /\ storage_objects = {}
  /\ shared_texts = {}
  /\ nextId = 1
  /\ now = 1
  /\ InitTextScopes
  /\ InitSessionState
  /\ index = [c \in Clients |-> IF c \in FeedClients THEN SubscribedIndex(c)
                                                      ELSE CheckedIndex(c)]
  /\ editor = [c \in Clients |-> IdleEditor]

NextFeed ==
  \/ \E p \in UploadCalls, c \in Uploaders, fileList \in Batches : handleUpload(p, c, fileList)
  \/ \E p \in UploadCalls : FetchExistingReturn(p)
  \/ \E p \in UploadCalls : StorageUploadReturn(p)
  \/ \E p \in UploadCalls : InsertReturn(p)
  \/ \E p \in UploadCalls : RefreshReturn(p)
  \/ \E c \in FeedClients : FileChange(c)
  \/ \E c \in FeedClients : FetchItemsReturn(c)

SpecFeed == InitFeed /\ [][NextFeed]_vars

\* The editors of c1 and c2, both on the network 10.0.0, whose scope holds no
\* text or the text "hello".  The users edit, and stop: an edit is made only
\* while the saves it and the pending debounced calls can lead to are within
\* MaxSaves, so that no call is ever held back.  What the program does by
\* itself (timers, returns of the store, change events) is not postponed
\* for ever; the renders of Index for reasons of its own are not bound to
\* happen.
ConvergeClients == {"c1", "c2"}

PendingCalls(cs) == Cardinality({d \in cs : editor[d].timer # <<>>})

EditBudget(c) ==
  SavesMade(Clients) + PendingCalls(ConvergeClients \ {c}) + 1 <= MaxConvergeSaves

InitConverge ==
  /\ shared_files = {}
  /\ storage_objects = {}
  /\ shared_texts = {}
  /\ nextId = 1
  /\ now = 1
  /\ InitTextScopes
  /\ InitPageState
  /\ editor = [c \in Clients |->
                 IF c \in ConvergeClients THEN MountedEditor(c) ELSE IdleEditor]

NextConverge ==
  \/ \E c \in ConvergeClients, newContent \in Contents :
       EditBudget(c) /\ handleTextChange(c, newContent)
  \/ \E c \in ConvergeClients : DebounceFire(c)
  \/ \E c \in ConvergeClients : SelectReturn(c)
  \/ \E c \in ConvergeClients : UpdateReturn(c)
  \/ \E c \in ConvergeClients : TextInsertReturn(c)
  \/ \E c \in ConvergeClients : SaveContentReturn(c)
  \/ \E c \in ConvergeClients : Rerender(c)
  \/ \E c \in ConvergeClients : LoadContentReturn(c)
  \/ \E c \in ConvergeClients : RealtimeChange(c)

FairConverge ==
  \A c \in ConvergeClients :
    /\ WF_vars(DebounceFire(c))
    /\ WF_vars(SelectReturn(c))
    /\ WF_vars(UpdateReturn(c))
    /\ WF_vars(TextInsertReturn(c))
    /\ WF_vars(SaveContentReturn(c))
    /\ WF_vars(LoadContentReturn(c))
    /\ WF_vars(RealtimeChange(c))

SpecConverge == InitConverge /\ [][NextConverge]_vars /\ FairConverge

(***************************************************************************)
(* Properties.                                                             *)
(***************************************************************************)
FileRowsOf(sc) == {r \in shared_files : r.scope = sc}
TextRowsOf(sc) == {r \in shared_texts : r.scope = sc}

\* the rows and objects written since the upload specification started
NewRows ==
  {r \in shared_files : r.url \notin {getPublicUrl(OldPath(i)) : i \in 1 .. MAX_FILES}}
NewObjects == storage_objects \ {OldPath(i) : i \in 1 .. MAX_FILES}

\* C1: scope isolation.  Whatever uploadFile and saveSharedText calls the
\* clients have made, fetchSharedFiles and fetchSharedTexts called for a scope
\* (a private-space key, or a network prefix when there is no key) return only
\* rows that were written under that very scope.
ScopeIsolation ==
  \A key \in Keys \cup {Undefined}, prefix \in Prefixes :
    /\ \A r \in fetchSharedFiles(key, prefix, TRUE) : r.scope = CallScope(key, prefix)
    /\ \A r \in fetchSharedTexts(key, prefix, TRUE) : r.scope = CallScope(key, prefix)

\* C1 witness: the private space "10.0.0" holds a file and the networks 10.0.0
\* and 10.0.1 hold a text each; the file listing of network 10.0.0 is empty
\* and its text listing is its own text alone.
ScopeIsolationWitness ==
  /\ FileRowsOf(KeyScope("10.0.0")) # {}
  /\ TextRowsOf(NetScope("10.0.0")) # {}
  /\ TextRowsOf(NetScope("10.0.1")) # {}
  /\ fetchSharedFiles(Undefined, "10.0.0", TRUE) = {}
  /\ fetchSharedFiles("10.0.0", "10.0.0", TRUE) = FileRowsOf(KeyScope("10.0.0"))
  /\ fetchSharedTexts(Undefined, "10.0.0", TRUE) = TextRowsOf(NetScope("10.0.0"))

\* C2: per-scope file count limit.  When every count query of handleUpload
\* has succeeded, no scope ever holds more than 20 shared_files rows.
FileCountLimit ==
  (\A p \in UploadCalls : upload[p].countSeen = upload[p].countAtCheck)
    => \A sc \in Scopes : Cardinality(FileRowsOf(sc)) <= MAX_FILES

\* C3: quota enforcement.  A handleUpload call whose scope held 20 files (or
\* more) when it counted them writes no object and no row.
QuotaEnforced ==
  \A p \in UploadCalls :
    upload[p].countAtCheck >= MAX_FILES => upload[p].blobsPut = {} /\ NewRows = {}

\* C4: per-file size limit.  A handleUpload call whose selection holds a file
\* larger than 50 MB has returned at once with a rejection, and neither an
\* object nor a row of any file of the selection has been written.
OversizeRejectsBatch ==
  \A p \in UploadCalls :
    LET r == upload[p]
    IN (r.pc # "idle" /\ \E i \in 1 .. Len(r.fileList) : r.fileList[i].size > MAX_FILE_SIZE)
         => /\ r.pc = "done"
            /\ r.result \in {"too_large", "not_connected"}
            /\ r.blobsPut = {}
            /\ r.uploadedFiles = <<>>
            /\ NewRows = {}
            /\ NewObjects = {}

\* C4 witness: a connected client's selection of a file within the limit
\* followed by one above it has been rejected.
OversizeRejectsBatchWitness ==
  \E p \in UploadCalls :
    LET r == upload[p]
    IN /\ r.pc = "done"
       /\ r.result = "too_large"
       /\ Len(r.fileList) >= 2
       /\ r.fileList[1].size <= MAX_FILE_SIZE
       /\ r.fileList[2].size > MAX_FILE_SIZE

FirstIndex(list, file) == Min({i \in 1 .. Len(list) : list[i] = file})

\* unique holds every (name, size) pair of list once, in first-seen order
IsFirstSeenDedup(unique, list) ==
  /\ {unique[i] : i \in 1 .. Len(unique)} = {list[i] : i \in 1 .. Len(list)}
  /\ \A i, j \in 1 .. Len(unique) :
       i < j => FirstIndex(list, unique[i]) < FirstIndex(list, unique[j])

\* C5: dedup.  The files handleUpload sets out to upload are the distinct
\* (name, size) pairs of the selection, once each, in first-seen order; the
\* files uploaded so far are the first ones of that list, one new row each,
\* and all of them when the call completes.
DedupFirstSeen ==
  \A p \in UploadCalls :
    LET r == upload[p]
    IN (r.countSeen >= 0 /\ r.result \notin {"limit_reached", "too_many"})
         => /\ IsFirstSeenDedup(r.uniqueFiles, r.fileList)
            /\ r.uploadedFiles = SubSeq(r.uniqueFiles, 1, Len(r.uploadedFiles))
            /\ Cardinality(NewRows) = Len(r.uploadedFiles)
            /\ r.result = "complete" => r.uploadedFiles = r.uniqueFiles

\* C5 witness: a selection f, g, f of two distinct files has been uploaded
\* completely, as the two files f, g.
DedupFirstSeenWitness ==
  \E p \in UploadCalls :
    LET r == upload[p]
    IN /\ r.pc = "done"
       /\ r.result = "complete"
       /\ Len(r.fileList) = 3
       /\ r.fileList[1] = r.fileList[3]
       /\ r.fileList[1] # r.fileList[2]
       /\ r.uploadedFiles = <<r.fileList[1], r.fileList[2]>>
       /\ Cardinality(NewRows) = 2

\* C6: text upsert.  With saveSharedText calls executed one after another, a
\* scope never holds more than one shared_texts row, and once a call for the
\* scope has succeeded the scope holds exactly one row, whose content is that
\* of the last call that succeeded.
TextUpsertSequential ==
  \A sc \in Scopes :
    /\ Cardinality(TextRowsOf(sc)) <= 1
    /\ saved[sc] # "" => \E r \in TextRowsOf(sc) :
                            TextRowsOf(sc) = {r} /\ r.content = saved[sc]

\* C6 witness: c1 and then c2 have saved a text for the network 10.0.0, the
\* second call updating the row the first inserted to "hello world".
TextUpsertSequentialWitness ==
  /\ \A c \in {"c1", "c2"} : save[c].pc = "idle" /\ save[c].calls = 1
                              /\ save[c].result = "saved"
  /\ nextId = 2
  /\ saved[NetScope("10.0.0")] = "hello world"
  /\ \E r \in shared_texts : r.content = "hello world" /\ r.scope = NetScope("10.0.0")

\* C7: text singleton under concurrency.  A saveSharedText call that found
\* duplicate rows of its scope and succeeds leaves exactly one row of the
\* scope.
SaveRepairsDuplicate ==
  [][\A c \in Clients :
       (save[c].pc = "update" /\ save[c].seen > 1 /\ save'[c].result = "saved")
         => Cardinality({r \in shared_texts' :
                           r.scope = CallScope(save[c].key, getCachedNetworkPrefix(c))}) = 1]_vars

\* C8: compensating delete.  After a handleUpload call has failed because
\* the metadata insert of uploadFile failed, the object uploadFile had just
\* written is no longer in the bucket.
FailedInsertLeavesNoBlob ==
  \A p \in UploadCalls :
    LET r == upload[p]
    IN (r.pc = "done" /\ r.result = "failed" /\ r.failedAt = "insert")
         => r.path \notin storage_objects

\* C9: delete ordering.  The first store call of handleDeleteFile is the row
\* delete, and while the storage remove is pending the row is gone already.
MetadataDeletedFirst ==
  \A c \in Clients :
    /\ (del[c].file # <<>> /\ del[c].calls # <<>>) => Head(del[c].calls) = "database"
    /\ del[c].pc = "remove" => del[c].file \notin shared_files

\* C10: parse failure does not block deletion.  A handleDeleteFile call that
\* could not derive the storage path from the stored URL has nevertheless
\* issued the row delete.
ParseFailureStillDeletes ==
  \A c \in Clients :
    LET r == del[c]
    IN (r.file # <<>> /\ r.result \in {"failed", "deleted"} /\ r.storagePath = <<>>)
         => \E k \in 1 .. Len(r.calls) : r.calls[k] = "database"

\* C11: delete all.  After a handleDeleteAllFiles call whose row delete has
\* succeeded, fetchSharedFiles for the caller's scope returns no file,
\* whether or not the storage remove removed every object.
DeleteAllEmptiesScope ==
  \A c \in Clients :
    del[c].result = "deletedAll"
      => fetchSharedFiles(privateSpaceKey[c], getCachedNetworkPrefix(c), TRUE) = {}

\* C11 witness: a delete-all has completed although its storage remove left
\* an object behind, and the listing of the scope is empty.
DeleteAllEmptiesScopeWitness ==
  \E c \in Clients :
    /\ del[c].result = "deletedAll"
    /\ del[c].storageError
    /\ del[c].storagePaths \cap storage_objects # {}
    /\ fetchSharedFiles(privateSpaceKey[c], getCachedNetworkPrefix(c), TRUE) = {}

\* the row of the k-th file a handleUpload call has uploaded is its k-th new
\* row in insertion order
RowsFollow(uploadedFiles) ==
  \A k \in 1 .. Len(uploadedFiles) :
    \E row \in NewRows :
      /\ Cardinality({q \in NewRows : q.id < row.id}) = k - 1
      /\ row.size = uploadedFiles[k].size
      /\ row.name = Concat(sanitizeFileName(uploadedFiles[k].name))

\* C12: sequential upload.  While an uploadFile call of a batch is in flight
\* it is the call for the file that follows the files uploaded so far, every
\* earlier file of the deduplicated selection has its object and its row, and
\* the rows were inserted in the order of the selection.
SequentialUpload ==
  \A p \in UploadCalls :
    LET r == upload[p]
    IN /\ r.pc \in {"upload", "insert"}
            => /\ r.i = Len(r.uploadedFiles) + 1
               /\ r.i <= Len(r.uniqueFiles)
               /\ \E t \in 0 .. MaxTime : r.path = UniqueFilePath(t, r.uniqueFiles[r.i].name)
       /\ r.pc = "insert" => r.path \in r.blobsPut
       /\ Cardinality(r.blobsPut) <= Len(r.uploadedFiles) + 1
       /\ r.uploadedFiles = SubSeq(r.uniqueFiles, 1, Len(r.uploadedFiles))
       /\ RowsFollow(r.uploadedFiles)

\* C12 witness: the transfer of the second file is in flight and the first
\* file has its row.
SequentialUploadWitness ==
  \E p \in UploadCalls :
    /\ upload[p].pc = "upload"
    /\ upload[p].i = 2
    /\ Len(upload[p].uploadedFiles) = 1
    /\ Cardinality(NewRows) = 1

\* C13: cancellation.  In a step taken by a batch after cancel was requested
\* no transfer of a further file starts (the transfer in flight may finish:
\* at most its own object is written), the files uploaded stay uploaded and
\* no row is removed.
CancelStopsBatch ==
  [][\A p \in UploadCalls :
       LET r == upload[p]
           r2 == upload'[p]
       IN (r.pc \notin {"idle", "done"} /\ uploadRef[r.client])
            => /\ r2.i = r.i
               /\ r2.pc = "upload" => r.pc = "upload"
               /\ r2.blobsPut \subseteq r.blobsPut \cup {r.path}
               /\ r.uploadedFiles = SubSeq(r2.uploadedFiles, 1, Len(r.uploadedFiles))
               /\ shared_files \subseteq shared_files']_vars

\* C13 witness: a batch of several files has ended cancelled after its first
\* file, whose row is in the table.
CancelStopsBatchWitness ==
  \E p \in UploadCalls :
    /\ upload[p].pc = "done"
    /\ upload[p].result = "cancelled"
    /\ Len(upload[p].uploadedFiles) = 1
    /\ Len(upload[p].uniqueFiles) >= 2
    /\ Cardinality(NewRows) = 1

\* C14: failure inside a batch.  When an uploadFile call fails (its storage
\* upload or its insert) and cancel was not requested, the batch ends at once
\* with the error: no later file is started, the same file is not tried
\* again, and the files uploaded before keep their rows.
FailureStopsBatch ==
  [][\A p \in UploadCalls :
       LET r == upload[p]
           r2 == upload'[p]
       IN (/\ r2 # r
           /\ \/ r.pc = "upload" /\ storage_objects' = storage_objects
              \/ r.pc = "insert" /\ shared_files' = shared_files
           /\ ~uploadRef[r.client]
           /\ ~uploadRef'[r.client])
            => /\ r2.pc = "done"
               /\ r2.result = "failed"
               /\ r2.failedAt \in {"upload", "insert"}
               /\ r2.i = r.i
               /\ r2.uploadedFiles = r.uploadedFiles
               /\ Len(r.uploadedFiles) = r.i - 1
               /\ Cardinality(NewRows) = Len(r.uploadedFiles)]_vars

\* C14 witness: a batch of three files has failed at its second file; the
\* first file has its row and the third was not started.
FailureStopsBatchWitness ==
  \E p \in UploadCalls :
    /\ upload[p].pc = "done"
    /\ upload[p].result = "failed"
    /\ upload[p].i = 2
    /\ Len(upload[p].uniqueFiles) = 3
    /\ upload[p].uploadedFiles = <<upload[p].uniqueFiles[1]>>
    /\ Cardinality(NewRows) = 1

\* C15: refresh exactly once.  A handleUpload call that has ended has called
\* onFilesUploaded once when it uploaded at least one file, and never when it
\* uploaded none.
RefreshExactlyOnce ==
  \A p \in UploadCalls :
    upload[p].pc = "done"
      => upload[p].refreshes = IF Len(upload[p].uploadedFiles) > 0 THEN 1 ELSE 0

\* C16: once an address is cached, the cached address and the cached network
\* prefix of the client never change again, also when two getClientIP calls
\* were started before the cache was filled and one fails and one succeeds.
CacheNeverChanges ==
  [][\A c \in Clients :
       cachedClientIP[c] # <<>> =>
         /\ cachedClientIP'[c] = cachedClientIP[c]
         /\ cachedNetworkPrefix'[c] = cachedNetworkPrefix[c]]_vars

\* a key of blanks only, or no key at all
IsBlank(key) == \A i \in 1 .. Len(key) : key[i] = " "

\* C17: a key that is empty or made of blanks only is never accepted: the
\* client does not enter a private space with it and the lists it has loaded
\* stay as they are.
BlankKeyRejected ==
  [][\A c \in Clients :
       (index'[c].inputKey # index[c].inputKey /\ IsBlank(index'[c].inputKey)
        /\ ~isPrivateSpace(c)) =>
         /\ privateSpaceKey'[c] = privateSpaceKey[c]
         /\ listed'[c] = listed[c]]_vars

\* C18: when the client enters or leaves a private space, the lists loaded
\* for the previous scope are empty by the time a query of the new scope is
\* in flight.
ListsClearedOnSwitch ==
  [][\A c \in Clients :
       (privateSpaceKey'[c] # privateSpaceKey[c]
        /\ [key |-> privateSpaceKey'[c]] \in fetches'[c]) =>
         listed'[c] = NothingListed]_vars

\* the edges of the save state machine
StatusEdges ==
  {<<"saved", "unsaved">>, <<"unsaved", "saving">>,
   <<"saving", "saved">>, <<"saving", "unsaved">>}

\* C19: the save status of an editing session changes only along
\* Saved -> Unsaved -> Saving -> Saved | Unsaved, and a save that failed
\* leaves the text and lastSavedContent as they were and releases the
\* in-progress guard.
SaveStateMachine ==
  [][\A c \in Clients :
       /\ editor'[c].autoSaveStatus # editor[c].autoSaveStatus =>
            <<editor[c].autoSaveStatus, editor'[c].autoSaveStatus>> \in StatusEdges
       /\ (editor[c].pc = "saving" /\ editor'[c].pc = "idle" /\ save[c].result = "failed") =>
            /\ editor'[c].text = editor[c].text
            /\ editor'[c].lastSavedContent = editor[c].lastSavedContent
            /\ ~editor'[c].saveInProgress]_vars

\* the part of C19 about a failed save alone
FailedSaveKeepsEdit ==
  [][\A c \in Clients :
       (editor[c].pc = "saving" /\ editor'[c].pc = "idle" /\ save[c].result = "failed") =>
         /\ editor'[c].text = editor[c].text
         /\ editor'[c].lastSavedContent = editor[c].lastSavedContent
         /\ editor'[c].autoSaveStatus = "unsaved"
         /\ ~editor'[c].saveInProgress]_vars

\* C20: a debounced call is never pending from before a manual save that
\* wrote: the manual save cancelled it, so the timer cannot write the
\* manually saved edit a second time.
ManualSaveCancelsDebounce ==
  \A c \in Clients : editor[c].timer # <<>> => ~editor[c].timerStale

\* a manual save is in flight that was made while a debounced call was
\* pending, and no debounced call is pending any more
ManualSaveCancelsDebounceWitness ==
  \E c \in Clients :
    /\ editor[c].pc = "saving"
    /\ editor[c].manualOverTimer
    /\ editor[c].timer = <<>>

\* C21: an editing session never has more than one saveSharedText call in
\* flight, whatever debounce firings, manual saves and re-renders occur.
SingleFlightSave ==
  \A c \in Clients : editor[c].inFlight <= 1

\* a save is in flight while the page has rendered again and a reload of the
\* text is pending
SingleFlightSaveWitness ==
  \E c \in Clients :
    /\ editor[c].inFlight = 1
    /\ editor[c].loading
    /\ save[c].pc # "idle"

\* no debounced call is pending while a save is in flight: the controls are
\* disabled for the time of a save and a pending call was fired or cancelled
\* when the save started
NoRequestDuringSave ==
  \A c \in Clients : editor[c].saveInProgress => editor[c].timer = <<>>

\* C23: whenever a change event carrying a content is handled by the text
\* subscription, the text and lastSavedContent of the editor both become
\* that content, whatever unsaved edit the editor holds.
RemoteUpdateOverwrites ==
  [][\A c \in Clients :
       editor'[c].delivered = editor[c].delivered + 1 =>
         /\ editor'[c].text = Head(editor[c].events)
         /\ editor'[c].lastSavedContent = Head(editor[c].events)]_vars

\* an event has just replaced an edit that was not saved
RemoteUpdateOverwritesWitness ==
  \E c \in Clients :
    /\ editor[c].lostEdit
    /\ editor[c].autoSaveStatus = "unsaved"
    /\ editor[c].text = editor[c].lastSavedContent
    /\ editor[c].timer # <<>>
    /\ editor[c].timer[1] # editor[c].text

CleanRun == sweep.runs >= 1 /\ sweep.failed = {} /\ sweep.leftOut = {}

\* C25: with the documented window of 2 days, a run of the sweeper deletes
\* every file whose timestamp is older than 2 days (row and blob) and
\* retains every younger one.
ExpiryAfterTwoDays ==
  CleanRun =>
    /\ \A r \in shared_files :
         /\ ~(r.shared_at < sweep.at - DOCUMENTED_DAYS * Day)
         /\ get_storage_path_from_url(r.url) \in storage_objects
    /\ \A written \in sweep.deletedWritten :
         getISTTimestamp(written) < sweep.at - DOCUMENTED_DAYS * Day

\* C26: when cleanup_old_files has run twice at the same time, no deletion
\* of the first run having raised, the second run has deleted nothing.
SecondRunDeletesNothing ==
  (sweep.runs >= 2 /\ sweep.at = sweep.prevAt /\ sweep.prevFailed = {}) =>
    sweep.deletedCount = 0

\* the same of a first run whose query returned every row older than the
\* cutoff
SecondRunDeletesNothingUnderLimit ==
  (sweep.runs >= 2 /\ sweep.at = sweep.prevAt /\ sweep.prevFailed = {}
     /\ sweep.prevLeftOut = {}) =>
    sweep.deletedCount = 0

\* C27: after a run of cleanup_old_files, whatever deletions raised, no file
\* older than the cutoff of the run is left except those whose deletion
\* raised, those the LIMIT left out of the query and those without a storage
\* path, and no text older than the cutoff is left.
SweepSurvivesFailure ==
  sweep.runs >= 1 =>
    /\ \A r \in shared_files :
         r.shared_at < sweep.at - RETENTION_DAYS * Day =>
           \/ r.id \in sweep.failed \cup sweep.leftOut
           \/ get_storage_path_from_url(r.url) = NoPath
    /\ \A r \in shared_texts :
         ~(r.shared_at < sweep.at - RETENTION_DAYS * Day)

\* the deletion of one file has raised, and the run has deleted another file
\* with its blob and the old text
SweepSurvivesFailureWitness ==
  /\ Cardinality(sweep.failed) = 1
  /\ sweep.deletedBlobs >= 1
  /\ sweep.deletedCount >= 2
  /\ shared_texts = {}
  /\ Cardinality(shared_files) = 1

\* C28: with the window of the sweeper, an item is deleted by a run exactly
\* when its true age, the time of the run minus the time it was written,
\* exceeds the window: no older item is left and no younger one was deleted.
RetentionByTrueAge ==
  CleanRun =>
    /\ \A r \in shared_files \cup shared_texts :
         ~(sweep.at - r.written > RETENTION_DAYS * Day)
    /\ \A written \in sweep.deletedWritten :
         sweep.at - written > RETENTION_DAYS * Day

\* the same with the age taken from the stored timestamp
RetentionByTimestamp ==
  CleanRun =>
    /\ \A r \in shared_files \cup shared_texts :
         ~(sweep.at - r.shared_at > RETENTION_DAYS * Day)
    /\ \A written \in sweep.deletedWritten :
         sweep.at - getISTTimestamp(written) > RETENTION_DAYS * Day


\* C29: the change events of one burst on the file subscription are
\* coalesced: once the events of a burst of two or more are handled, fewer
\* calls of fetchSharedItems have been made than the burst had events.
BurstCoalesced ==
  \A c \in Clients :
    (index[c].burst >= 2 /\ index[c].events = 0) =>
      index[c].burstRefreshes < index[c].burst

\* what the handler does: one call of fetchSharedItems for each event
RefreshPerEvent ==
  \A c \in Clients :
    index[c].subscription # <<>> =>
      index[c].burstRefreshes + index[c].events = index[c].burst

\* the content stored for the scope of the network 10.0.0
StoredContent ==
  LET texts == fetchSharedTexts(Undefined, "10.0.0", TRUE)
  IN IF texts = {} THEN "" ELSE NewestText(texts).content

Converged == \A c \in ConvergeClients : editor[c].text = StoredContent

\* a user changes the text
Editing == \E c \in ConvergeClients, newContent \in Contents : handleTextChange(c, newContent)

\* C30: if from some time on no user edits, then, saves, timers and change
\* events being processed, the editors of the scope come to display, for
\* good, the text stored for the scope.
TextConvergence == <>[][~Editing]_vars => <>[]Converged

\* C31: a save starts only when the quiet period of a debounced call has
\* elapsed or on a manual save, and a pending debounced call goes away only
\* by issuing its save or by being replaced (a new edit) or overtaken (a
\* manual save); a render of the parent does not drop it.
DebouncedSaveIssued ==
  [][\A c \in Clients :
       /\ (editor[c].pc = "idle" /\ editor'[c].pc = "saving") =>
            \/ editor[c].timer = <<editor'[c].content>>
            \/ editor[c].text = editor'[c].content
       /\ (editor[c].timer # <<>> /\ editor'[c].timer = <<>>) =>
            (editor[c].pc = "idle" /\ editor'[c].pc = "saving")]_vars

\* the first half of C31 alone
SaveOnlyAfterQuietPeriod ==
  [][\A c \in Clients :
       (editor[c].pc = "idle" /\ editor'[c].pc = "saving") =>
         \/ editor[c].timer = <<editor'[c].content>>
         \/ (editor[c].text = editor'[c].content
               /\ editor[c].text # editor[c].lastSavedContent)]_vars

\* C32: for a stored URL of each of the three shapes, the path
\* handleDeleteFile has derived with getStoragePathFromUrl is the path of the
\* blob of the file, which is not empty.
StoragePathDerived ==
  \A c \in Clients :
    del[c].file # <<>> =>
      /\ del[c].storagePath # <<>>
      /\ del[c].storagePath = OldPath(del[c].file.id)

\* the same of the public URL uploadFile stores and of the object URL
StoragePathRoundTrip ==
  \A c \in Clients :
    (del[c].file # <<>> /\ del[c].file.url.abs) =>
      /\ del[c].storagePath # <<>>
      /\ del[c].storagePath = OldPath(del[c].file.id)

\* C33: when no fetchSharedItems call of a client is in flight, the files its
\* page lists are files of the scope that is active.
DisplayedScopeIsActive ==
  \A c \in PageClients :
    fetches[c] = {} =>
      \A f \in listed[c].files :
        f.scope = CallScope(privateSpaceKey[c], getCachedNetworkPrefix(c))

\* The page of one client of the network 10.0.0 with the Text tab shown.  The
\* private space K holds the text "hello world"; the network holds no text
\* or the text "hello".  The user switches between the network and private
\* spaces and edits by appending a character to the text shown; the edits
\* are saved by the debounced call.  The calls of fetchSharedItems stay in
\* flight.
SwitchClients == {"c1"}
PrivateText == "hello world"
Appended(text) == text \o "!"
SwitchTexts == {Appended(t) : t \in EditorTexts}
SwitchKeys == {<<"K">>}

InitSwitch ==
  /\ shared_files = {}
  /\ storage_objects = {}
  /\ \E k \in {0, 1} :
       shared_texts = {NewTextRow(1, PrivateText, "K", "")}
                        \cup {NewTextRow(2, "hello", Undefined, "10.0.0") : i \in 1 .. k}
  /\ nextId = 3
  /\ now = 1
  /\ cachedNetworkPrefix = [c \in Clients |-> "10.0.0"]
  /\ privateSpaceKey = [c \in Clients |-> Undefined]
  /\ InitPageState
  /\ editor = [c \in Clients |->
                 IF c \in SwitchClients THEN MountedEditor(c) ELSE IdleEditor]

NextSwitch ==
  \/ \E c \in SwitchClients, inputKey \in SwitchKeys : enterPrivateSpace(c, inputKey)
  \/ \E c \in SwitchClients : exitPrivateSpace(c)
  \/ \E c \in SwitchClients : LoadContentReturn(c)
  \/ \E c \in SwitchClients :
       \E newContent \in {Appended(editor[c].text)} \cap SwitchTexts :
         handleTextChange(c, newContent)
  \/ \E c \in SwitchClients : DebounceFire(c)
  \/ \E c \in SwitchClients : SelectReturn(c)
  \/ \E c \in SwitchClients : UpdateReturn(c)
  \/ \E c \in SwitchClients : TextInsertReturn(c)
  \/ \E c \in SwitchClients : SaveContentReturn(c)
  \/ \E c \in SwitchClients : RealtimeChange(c)

SpecSwitch == InitSwitch /\ [][NextSwitch]_vars

\* the editor of c is at rest: no load and no save is in flight and no
\* change event is on its way
EditorAtRest(c) ==
  /\ ~editor[c].loading
  /\ editor[c].pc = "idle"
  /\ save[c].pc = "idle"
  /\ editor[c].events = <<>>

\* text begins with the text of the private space
HoldsPrivateText(text) ==
  /\ Len(text) >= Len(PrivateText)
  /\ SubSeq(text, 1, Len(PrivateText)) = PrivateText

\* outside the private space the editor at rest does not show its text
EditorShowsActiveScope ==
  \A c \in SwitchClients :
    (privateSpaceKey[c] # "K" /\ EditorAtRest(c)) => editor[c].text # PrivateText

\* no row outside the private space holds a text made from its text
SaveStaysInScope ==
  \A r \in shared_texts : r.private_space_key # "K" => ~HoldsPrivateText(r.content)

\* C34: after a switch of scope the editor does not keep showing the text
\* loaded from the previous scope, and no save writes it into the new scope.
EditorFollowsScope == EditorShowsActiveScope /\ SaveStaysInScope

\* the status 'saved' shown while no save is in flight goes with a text equal
\* to lastSavedContent
SavedIsStored ==
  \A c \in EditorClients :
    (editor[c].autoSaveStatus = "saved" /\ ~editor[c].saveInProgress)
      => editor[c].text = editor[c].lastSavedContent

\* the debounced call of c starts a save in this step
DebouncedSaveStarts(c) ==
  /\ editor[c].timer # <<>>
  /\ editor[c].pc = "idle"
  /\ editor'[c].pc = "saving"
  /\ editor'[c].timer = <<>>
  /\ ~editor'[c].manualOverTimer
  /\ editor'[c].content = editor[c].timer[1]

\* a save started by the debounced call writes the text of the editor
TimerWritesCurrentText ==
  [][\A c \in EditorClients :
       DebouncedSaveStarts(c) => editor'[c].content = editor[c].text]_vars

\* C35: the status 'saved' with no save in flight means that the text equals
\* lastSavedContent, and a debounced call armed by an earlier edit never
\* writes a content other than the current text.
SavedMeansStored == []SavedIsStored /\ TimerWritesCurrentText

\* The Index page of one client of the network 10.0.0 whose network check
\* has been made, with the delete handlers of the page: the user switches
\* between the network and the private space K and deletes what is listed.
\* The network and the private space hold a file each.
InitScopedDelete ==
  /\ shared_files =
       {NewFileRow(1, [name |-> <<"a">>, size |-> 12], UniqueFilePath(0, <<"a">>),
                   Undefined, "10.0.0"),
        NewFileRow(2, [name |-> <<"a", "1">>, size |-> 2], UniqueFilePath(0, <<"a", "1">>),
                   "K", "")}
  /\ storage_objects = {UniqueFilePath(0, <<"a">>), UniqueFilePath(0, <<"a", "1">>)}
  /\ shared_texts = {}
  /\ nextId = 3
  /\ now = 1
  /\ cachedNetworkPrefix = [c \in Clients |-> "10.0.0"]
  /\ privateSpaceKey = [c \in Clients |-> Undefined]
  /\ InitClientState

NextScopedDelete ==
  \/ \E c \in PageClients, inputKey \in SwitchKeys : enterPrivateSpace(c, inputKey)
  \/ \E c \in PageClients : exitPrivateSpace(c)
  \/ \E c \in PageClients : FetchItemsReturn(c)
  \/ \E c \in PageClients : \E file \in listed[c].files : handleDeleteFile(c, file)
  \/ \E c \in PageClients : StorageRemoveReturn(c)
  \/ \E c \in PageClients : DbDeleteReturn(c)
  \/ \E c \in PageClients : handleDeleteAllFiles(c)
  \/ \E c \in PageClients : StorageRemoveAllReturn(c)
  \/ \E c \in PageClients : DbDeleteAllReturn(c)

SpecScopedDelete == InitScopedDelete /\ [][NextScopedDelete]_vars

\* the scope that was active when the delete handler of c was called
DeleteScope(c) == CallScope(del[c].key, del[c].prefix)

\* the rows whose blob is at path
RowsOfBlob(path) == {r \in shared_files : getStoragePathFromUrl(r.url) = path}

\* C36: a delete handler removes only rows of the scope that was active when
\* it was called, and only blobs of rows of that scope.
DeletesStayInScope ==
  [][\A c \in PageClients :
       /\ del[c].pc \in {"dbdelete", "dbdeleteAll"} =>
            \A r \in shared_files \ shared_files' : r.scope = DeleteScope(c)
       /\ del[c].pc \in {"remove", "removeAll"} =>
            \A path \in storage_objects \ storage_objects' :
              \A r \in RowsOfBlob(path) : r.scope = DeleteScope(c)]_vars

\* the path of the blob a row refers to: the path its URL was made from
BlobOf(r) == IF r.url.abs THEN getStoragePathFromUrl(r.url) ELSE r.url.segs

\* C37: when no delete is in progress every row of shared_files refers to a
\* blob that exists.
NoDanglingRows ==
  (\A c \in Clients : del[c].pc = "idle") =>
    \A r \in shared_files : BlobOf(r) \in storage_objects

\* Two batches of one component: client c1 of the network 10.0.0, whose scope
\* is empty, has two calls of handleUpload for the same two files in progress
\* (the files are dropped again during the upload: handleDrop, lines 483-494,
\* is not disabled while isUploading).
OverlapClients == {"c1"}
OverlapBatches == {<<[name |-> <<"a">>, size |-> 12], [name |-> <<"a", "1">>, size |-> 2]>>}

InitOverlap ==
  /\ shared_files = {}
  /\ storage_objects = {}
  /\ nextId = 1
  /\ shared_texts = {}
  /\ now = 1
  /\ InitScopes
  /\ InitClientState

NextOverlap ==
  \/ \E p \in Procs, c \in OverlapClients, fileList \in OverlapBatches :
       handleUpload(p, c, fileList)
  \/ \E p \in Procs : FetchExistingReturn(p)
  \/ \E p \in Procs : StorageUploadReturn(p)
  \/ \E p \in Procs : InsertReturn(p)
  \/ \E p \in Procs : RefreshReturn(p)
  \/ \E c \in OverlapClients : handleCancelUpload(c)

SpecOverlap == InitOverlap /\ [][NextOverlap]_vars

\* C38: cancel with overlapping batches.  Once cancel was requested while a
\* batch was in progress, that batch starts no transfer of a further file,
\* whatever the other batch of the component does.
CancelStopsBothBatches ==
  [][\A p \in Procs :
       LET r == upload[p]
           r2 == upload'[p]
       IN (r.pc \notin {"idle", "done"} /\ r.cancelRequested)
            => /\ r2.i = r.i
               /\ r2.pc = "upload" => r.pc = "upload"]_vars

\* A batch of one or two files of one component, as in SpecUpload, where the
\* store call a batch awaits returns.
StoreCallReturns(p) ==
  \/ FetchExistingReturn(p)
  \/ StorageUploadReturn(p)
  \/ InsertReturn(p)
  \/ RefreshReturn(p)

FairUpload == \A p \in UploadCalls : WF_vars(StoreCallReturns(p))

\* the batches of one or two files
ShortBatches == {fileList \in Batches : Len(fileList) <= 2}

NextUploadShort ==
  \/ \E p \in UploadCalls, c \in Clients, fileList \in ShortBatches : handleUpload(p, c, fileList)
  \/ \E p \in UploadCalls : FetchExistingReturn(p)
  \/ \E p \in UploadCalls : StorageUploadReturn(p)
  \/ \E p \in UploadCalls : InsertReturn(p)
  \/ \E p \in UploadCalls : RefreshReturn(p)
  \/ \E c \in Clients : handleCancelUpload(c)

SpecUploadFair == InitUpload /\ [][NextUploadShort]_vars /\ FairUpload

\* a call of handleUpload that was made ends
UploadEnds == \A p \in UploadCalls : upload[p].pc # "idle" ~> upload[p].pc = "done"

\* the step in which a call ends leaves isUploading false, the progress 0 and
\* the cancel flag cleared
ExitLeavesClean ==
  [][\A p \in UploadCalls :
       (upload[p].pc # "done" /\ upload'[p].pc = "done") =>
         LET c == upload'[p].client
         IN /\ ~isUploading'[c]
            /\ uploadProgress'[c] = 0
            /\ ~uploadRef'[c]
            /\ ~cancelUpload'[c]]_vars

\* C39: every handleUpload call ends when each store call returns, and on
\* every exit path it leaves isUploading false, the progress 0 and the cancel
\* flag cleared.
BatchTerminates == UploadEnds /\ ExitLeavesClean

\* C39 witness: a batch for which cancel was requested has ended, after a
\* file was uploaded, and the flag is cleared.
BatchTerminatesWitness ==
  \E p \in UploadCalls :
    /\ upload[p].pc = "done"
    /\ upload[p].cancelRequested
    /\ Len(upload[p].uploadedFiles) > 0
    /\ ~uploadRef[upload[p].client]
    /\ ~isUploading[upload[p].client]

\* C40: quota check on a failed count query.  A handleUpload call whose query
\* for the existing files of the scope failed writes no object and no row.
FailedCountWritesNothing ==
  \A p \in UploadCalls :
    upload[p].countFailed => upload[p].blobsPut = {} /\ upload[p].uploadedFiles = <<>>

=============================================================================
